---- MODULE Spec2Model ----
(***************************************************************************)
(* Atlas Forge: the versioned element store (tables and the pointer        *)
(* triggers of db.py), the Normalizer / Orchestrator task sync_from_notion *)
(* (core/normalize.py) and the two diff tasks (core/diff.py).              *)
(*                                                                         *)
(* Two specifications share the store's tables:                            *)
(*   SpecStore  concurrent transactions inserting version rows, with the   *)
(*              row-level locking of the triggers' UPDATE statements;      *)
(*   Spec       the snapshot pipeline: create_snapshot, sync_from_notion,  *)
(*              diff_structure, diff_elements.                             *)
(***************************************************************************)
EXTENDS Integers, Sequences, FiniteSets, TLC

VARIABLES
    documents,                  \* table documents: id -> row
    document_elements,          \* table document_elements: id -> row
    document_element_metadatas, \* table document_element_metadatas: set of rows
    document_element_contents,  \* table document_element_contents: set of rows
    snapshots,                  \* table snapshots: id -> row
    clock,                      \* .db: the server's now(); .worker: datetime.now()
    txElems,                    \* per open transaction: element rows it wrote (and locks)
    txMetadatas,                \* per open transaction: uncommitted metadata rows
    txContents,                 \* per open transaction: uncommitted content rows
    sync,                       \* per snapshot: the sync_from_notion task's local state
    dstruct,                    \* per snapshot: the diff_structure task's local state
    delems                      \* per snapshot: the diff_elements task's local state

storeVars == <<documents, document_elements, document_element_metadatas,
               document_element_contents>>
txVars == <<txElems, txMetadatas, txContents>>
taskVars == <<sync, dstruct, delems>>
vars == <<documents, document_elements, document_element_metadatas,
          document_element_contents, snapshots, clock, txElems, txMetadatas,
          txContents, sync, dstruct, delems>>

----------------------------------------------------------------------------
(* Nullable columns: NULL is the empty set, a value v is {v}. *)
None == {}
Some(x) == {x}
The(o) == CHOOSE x \in o : TRUE

(* SQL's NEW.version > latest: never true against NULL. *)
SqlGt(v, o) == o # None /\ v > The(o)

----------------------------------------------------------------------------
(* Bounds. *)
MaxVersion == 3      \* SpecStore: version timestamps are 1..MaxVersion
MaxTxRows == 3       \* SpecStore: version rows written over a run

(* The block ids, plain texts and reference ids the external source serves. *)
ElemIds == {"A", "B", "C", "D", "E"}
Texts == {"x", "y"}

(* blake2b over the plain text (normalize.py 146-148): injective on Texts,
   and never the text itself. *)
Blake2b(raw_text) == <<"blake2b", raw_text>>

----------------------------------------------------------------------------
(* The version store. *)

(* Column defaults of a new document_elements row. *)
DocumentElement(document_id) ==
    [document_id |-> document_id,
     latest_metadata_version |-> None,
     latest_content_version |-> None,
     latest_content_hash |-> None]

DocumentElementMetadata(id, version, level, parent_element, position) ==
    [document_element_id |-> id, version |-> version, level |-> level,
     parent_element |-> parent_element, position |-> position]

DocumentElementContent(id, version, content_raw, hash_raw, content_formatted) ==
    [document_element_id |-> id, version |-> version, content_raw |-> content_raw,
     hash_raw |-> hash_raw, content_formatted |-> content_formatted]

(* Faulty variant: a trigger that moves the pointer on every insert. *)
MetadataTriggerWhereAlways(el, new) == TRUE

(* The WHERE clause of the metadata trigger's UPDATE, on the element row. *)
MetadataTriggerWhere(el, new) ==
    el.latest_metadata_version = None \/ SqlGt(new.version, el.latest_metadata_version)

(* Trigger function update_latest_metadata_version, AFTER INSERT ... FOR EACH ROW. *)
update_latest_metadata_version(el, new) ==
    IF MetadataTriggerWhere(el, new)
    THEN [el EXCEPT !.latest_metadata_version = Some(new.version)]
    ELSE el

(* The WHERE clause of the content trigger's UPDATE. *)
ContentTriggerWhere(el, new) ==
    el.latest_content_version = None \/ SqlGt(new.version, el.latest_content_version)

(* Faulty variant: the UPDATE moves the version pointer and leaves the hash. *)
update_latest_content_version_only(el, new) ==
    IF ContentTriggerWhere(el, new)
    THEN [el EXCEPT !.latest_content_version = Some(new.version)]
    ELSE el

(* Trigger function update_latest_content_version. *)
update_latest_content_version(el, new) ==
    IF ContentTriggerWhere(el, new)
    THEN [el EXCEPT !.latest_content_version = Some(new.version),
                    !.latest_content_hash = Some(new.hash_raw)]
    ELSE el

(* Faulty variant: the written rows take the place of the rows their elements
   had. *)
ReplaceRows(table, rows) ==
    {r \in table : \A n \in rows : n.document_element_id # r.document_element_id}
    \cup rows

(* The INSERTs of a committed session: the version tables are only ever written
   by session.add of a new row (normalize.py 176-178, 189). *)
InsertRows(table, rows) == table \cup rows

(* Primary keys metadata_pk / content_pk: (document_element_id, version). *)
PkFree(rows, id, version) ==
    \A r \in rows : ~(r.document_element_id = id /\ r.version = version)

(* MAX(version) ... GROUP BY document_element_id of validate_version_consistency:
   NULL for an element without rows (LEFT JOIN). *)
MaxVersionOf(rows, id) ==
    LET vs == {r.version : r \in {q \in rows : q.document_element_id = id}}
    IN IF vs = {} THEN None ELSE Some(CHOOSE v \in vs : \A w \in vs : w <= v)

(* The two consistency columns of validate_version_consistency. *)
metadata_consistent(id) ==
    document_elements[id].latest_metadata_version
        = MaxVersionOf(document_element_metadatas, id)

content_consistent(id) ==
    document_elements[id].latest_content_version
        = MaxVersionOf(document_element_contents, id)

----------------------------------------------------------------------------
(* SpecStore: transactions against the version store (READ COMMITTED).      *)
(* A transaction's writes stay private until Commit. The trigger's UPDATE   *)
(* takes the element's row lock when its WHERE clause matches the row the   *)
(* statement sees; while another open transaction holds that lock the       *)
(* statement waits, and evaluates the WHERE clause again on the row that    *)
(* transaction committed.                                                   *)

Txs == {"t1", "t2"}
StoreElems == {"A", "B"}

TxOpen(t) == txElems[t] # <<>> \/ txMetadatas[t] # {} \/ txContents[t] # {}

LockedByOther(t, id) == \E u \in Txs \ {t} : id \in DOMAIN txElems[u]

(* The element row a statement of t sees: its own write, else the committed row. *)
TxSees(t, id) == id \in DOMAIN txElems[t] \/ id \in DOMAIN document_elements
TxElem(t, id) ==
    IF id \in DOMAIN txElems[t] THEN txElems[t][id] ELSE document_elements[id]

RowsWritten ==
    Cardinality(document_element_metadatas) + Cardinality(document_element_contents)
    + Cardinality(UNION {txMetadatas[t] : t \in Txs})
    + Cardinality(UNION {txContents[t] : t \in Txs})

(* INSERT INTO document_elements inside t. *)
TxInsertElement(t, id) ==
    /\ id \notin DOMAIN document_elements
    /\ \A u \in Txs : id \notin DOMAIN txElems[u]
    /\ txElems' = [txElems EXCEPT ![t] = (id :> DocumentElement(1)) @@ @]
    /\ UNCHANGED <<storeVars, snapshots, clock, txMetadatas, txContents, taskVars>>

(* INSERT INTO document_element_metadatas inside t, with its trigger. *)
TxInsertMetadata(t, id, version) ==
    LET new == DocumentElementMetadata(id, version, 0, None, 0)
        el == TxElem(t, id)
    IN /\ RowsWritten < MaxTxRows
       /\ TxSees(t, id)
       /\ PkFree(document_element_metadatas, id, version)
       /\ \A u \in Txs : PkFree(txMetadatas[u], id, version)
       /\ MetadataTriggerWhere(el, new) => ~LockedByOther(t, id)
       /\ txMetadatas' = [txMetadatas EXCEPT ![t] = @ \cup {new}]
       /\ txElems' = IF MetadataTriggerWhere(el, new)
                     THEN [txElems EXCEPT ![t] =
                              (id :> update_latest_metadata_version(el, new)) @@ @]
                     ELSE txElems
       /\ UNCHANGED <<storeVars, snapshots, clock, txContents, taskVars>>

(* INSERT INTO document_element_contents inside t, with its trigger. *)
TxInsertContent(t, id, version, text) ==
    LET new == DocumentElementContent(id, version, text, Blake2b(text), text)
        el == TxElem(t, id)
    IN /\ RowsWritten < MaxTxRows
       /\ TxSees(t, id)
       /\ PkFree(document_element_contents, id, version)
       /\ \A u \in Txs : PkFree(txContents[u], id, version)
       /\ ContentTriggerWhere(el, new) => ~LockedByOther(t, id)
       /\ txContents' = [txContents EXCEPT ![t] = @ \cup {new}]
       /\ txElems' = IF ContentTriggerWhere(el, new)
                     THEN [txElems EXCEPT ![t] =
                              (id :> update_latest_content_version(el, new)) @@ @]
                     ELSE txElems
       /\ UNCHANGED <<storeVars, snapshots, clock, txMetadatas, taskVars>>

TxCommit(t) ==
    /\ TxOpen(t)
    /\ document_elements' = txElems[t] @@ document_elements
    /\ document_element_metadatas' = InsertRows(document_element_metadatas, txMetadatas[t])
    /\ document_element_contents' = InsertRows(document_element_contents, txContents[t])
    /\ txElems' = [txElems EXCEPT ![t] = <<>>]
    /\ txMetadatas' = [txMetadatas EXCEPT ![t] = {}]
    /\ txContents' = [txContents EXCEPT ![t] = {}]
    /\ UNCHANGED <<documents, snapshots, clock, taskVars>>

TxRollback(t) ==
    /\ TxOpen(t)
    /\ txElems' = [txElems EXCEPT ![t] = <<>>]
    /\ txMetadatas' = [txMetadatas EXCEPT ![t] = {}]
    /\ txContents' = [txContents EXCEPT ![t] = {}]
    /\ UNCHANGED <<storeVars, snapshots, clock, taskVars>>

InitStore ==
    /\ documents = (1 :> [reference_id |-> "p1", updated_at |-> 0])
    /\ document_elements = <<>>
    /\ document_element_metadatas = {}
    /\ document_element_contents = {}
    /\ snapshots = <<>>
    /\ clock = [db |-> 0, worker |-> 0]
    /\ txElems = [t \in Txs |-> <<>>]
    /\ txMetadatas = [t \in Txs |-> {}]
    /\ txContents = [t \in Txs |-> {}]
    /\ sync = <<>>
    /\ dstruct = <<>>
    /\ delems = <<>>

NextStore ==
    \E t \in Txs :
        \/ \E id \in StoreElems : TxInsertElement(t, id)
        \/ \E id \in StoreElems, v \in 1..MaxVersion : TxInsertMetadata(t, id, v)
        \/ \E id \in StoreElems, v \in 1..MaxVersion, text \in Texts :
               TxInsertContent(t, id, v, text)
        \/ TxCommit(t)
        \/ TxRollback(t)

SpecStore == InitStore /\ [][NextStore]_vars

----------------------------------------------------------------------------
(* The external source (Notion).  A page is a forest of blocks; a block has *)
(* an id, one rich-text item (plain_text and text.content) and children.    *)

Block(id, plain_text, content, children) ==
    [id |-> id, plain_text |-> plain_text, content |-> content, children |-> children]

Leaf(id, text) == Block(id, text, text, <<>>)

(* What the source may serve for a reference id.  p1 is edited between
   ingestions (an empty page, a text change, a block moved to root level
   next to a block whose markup alone changed, a deep chain, the deep chain
   followed by a sibling); p2 is a one-block page of another document; p3 is a
   page whose blocks are reordered under their parent, and dropped, between
   ingestions; p4 is a one-block page whose text is edited back and forth. *)
RefIds == {"p1", "p2"}

Pages(ref) ==
    IF ref = "p1"
    THEN { <<>>,
           <<Leaf("A", "x"), Block("B", "x", "x", <<Leaf("C", "x")>>)>>,
           <<Leaf("A", "x"), Block("B", "y", "y", <<Leaf("C", "x")>>)>>,
           <<Leaf("A", "x"), Block("B", "x", "y", <<>>), Leaf("C", "x")>>,
           <<Block("A", "x", "x", <<Block("B", "x", "x", <<Leaf("C", "y")>>)>>)>>,
           <<Block("A", "x", "x", <<Block("B", "x", "x", <<Leaf("C", "y")>>)>>),
             Leaf("E", "x")>> }
    ELSE IF ref = "p3"
    THEN { <<Leaf("A", "x"), Leaf("B", "x"), Leaf("C", "x")>>,
           <<Leaf("C", "x"), Leaf("A", "x"), Leaf("B", "x")>>,
           <<Leaf("B", "x"), Leaf("A", "x"), Leaf("C", "x")>>,
           <<Leaf("A", "x"), Leaf("B", "x")>>,
           <<Block("A", "x", "x", <<Leaf("B", "x"), Leaf("C", "x")>>)>>,
           <<Block("A", "x", "x", <<Leaf("C", "x"), Leaf("B", "x")>>)>> }
    ELSE IF ref = "p4"
    THEN { <<Leaf("D", "x")>>, <<Leaf("D", "y")>> }
    ELSE { <<Leaf("D", "x")>> }

RECURSIVE BlockIds(_)
BlockIds(forest) ==
    IF forest = <<>> THEN {}
    ELSE {forest[1].id} \cup BlockIds(forest[1].children) \cup BlockIds(Tail(forest))

(* What can go wrong while the source is read: nothing; an APIResponseError of
   pages.retrieve or of blocks.children.list(block); a block of unexpected shape
   (a KeyError on child["id"] / child["type"]). *)
Faults(ref, page) ==
    {<<"none", ref>>, <<"api", ref>>}
    \cup {<<"api", b>> : b \in BlockIds(page)}
    \cup {<<"shape", b>> : b \in BlockIds(page)}

AllPages == UNION {Pages(ref) : ref \in RefIds}
AllFaults == UNION {Faults(ref, page) : ref \in RefIds, page \in AllPages}

----------------------------------------------------------------------------
(* extract_text_from_rich_text: (plain_text, formatted_text) of a block. *)
extract_text_from_rich_text(child) == <<child.plain_text, child.content>>

(* The rows a session holds before it commits. *)
EmptySession == [elements |-> {}, metadatas |-> {}, contents |-> {}]

(* Faulty variant: no element ever counts as changed. *)
ContentChangedNever(element_hash, old_element) == FALSE

(* Faulty variant: every existing element counts as changed. *)
ContentChangedAlways(element_hash, old_element) == TRUE

(* element_hash != old_element.latest_content_hash (normalize.py 180). *)
ContentChanged(element_hash, old_element) ==
    Some(element_hash) # old_element.latest_content_hash

(* Faulty variant: the enclosing block is recorded at every depth. *)
ParentElementAlways(block_id, depth) == Some(block_id)

(* parent_element=block_id if depth > 0 else None (normalize.py 161). *)
ParentElement(block_id, depth) == IF depth > 0 THEN Some(block_id) ELSE None

RECURSIVE dfs_children(_, _, _, _, _, _)
RECURSIVE dfs_notion_tree(_, _, _, _, _, _)

(* dfs_notion_tree(block_id, session, depth, position): children is what
   blocks.children.list(block_id) returns; ctx carries the closure's
   snapshot_timestamp, document_id, the committed document_elements table that
   db_get_document_element_by_id reads, and the fault of this run. *)
dfs_notion_tree(block_id, children, depth, position, session, ctx) ==
    IF ctx.fault = <<"api", block_id>>
    THEN [failed |-> Some("APIResponseError"), document_structure |-> <<>>,
          changed_elems |-> <<>>, position |-> position, session |-> session]
    ELSE dfs_children(children, 1, block_id, depth,
                      [failed |-> None, document_structure |-> <<>>,
                       changed_elems |-> <<>>, position |-> position,
                       session |-> session], ctx)

(* The loop body of dfs_notion_tree, for children[i..]. *)
dfs_children(children, i, block_id, depth, st, ctx) ==
    IF st.failed # None \/ i > Len(children) THEN st
    ELSE
    LET child == children[i]
        child_id == child.id
        texts == extract_text_from_rich_text(child)
        raw_text == texts[1]
        formatted_text == texts[2]
        element_hash == Blake2b(raw_text)
        is_new == child_id \notin DOMAIN ctx.document_elements
        element_content ==
            DocumentElementContent(child_id, ctx.snapshot_timestamp, raw_text,
                                   element_hash, formatted_text)
        element_metadata ==
            DocumentElementMetadata(child_id, ctx.snapshot_timestamp, depth,
                                    ParentElement(block_id, depth),
                                    st.position)
        changed ==
            ~is_new /\ ContentChanged(element_hash, ctx.document_elements[child_id])
        session1 ==
            IF is_new
            THEN [elements |-> st.session.elements \cup {child_id},
                  metadatas |-> st.session.metadatas \cup {element_metadata},
                  contents |-> st.session.contents \cup {element_content}]
            ELSE IF changed
            THEN [st.session EXCEPT !.contents = @ \cup {element_content}]
            ELSE st.session
        position1 == st.position + 1
        has_children == child.children # <<>>
        sub == IF has_children
               THEN dfs_notion_tree(child_id, child.children, depth + 1, position1,
                                    session1, ctx)
               ELSE [failed |-> None, document_structure |-> <<>>,
                     changed_elems |-> <<>>, position |-> position1,
                     session |-> session1]
        my_children == sub.document_structure
        position2 == IF has_children THEN position1 + Len(my_children) ELSE position1
    IN IF ctx.fault = <<"shape", child_id>>
       THEN [st EXCEPT !.failed = Some("Exception")]
       ELSE IF sub.failed # None
       THEN [st EXCEPT !.failed = sub.failed, !.session = sub.session]
       ELSE dfs_children(children, i + 1, block_id, depth,
                [failed |-> None,
                 document_structure |->
                     Append(st.document_structure,
                            [id |-> child_id, children |-> my_children]),
                 changed_elems |->
                     st.changed_elems
                     \o (IF changed THEN <<child_id>> ELSE <<>>)
                     \o sub.changed_elems,
                 position |-> position2,
                 session |-> sub.session], ctx)

----------------------------------------------------------------------------
(* The snapshot pipeline. *)

MaxRedeliveries == 1 \* SpecRetry: tasks delivered a second time over a run
MaxSnapshots == 2    \* Spec: deliveries of sync_from_notion over a run

(* Column defaults of a new snapshots row (db_create_snapshot). *)
Snapshot(reference_id, triggered_at) ==
    [reference_id |-> reference_id, document_id |-> None,
     triggered_at |-> triggered_at, executed_at |-> None, status |-> "open",
     document_structure |-> None, document_structure_diff |-> None,
     changed_elements |-> None, changed_elements_diff |-> None, error |-> None]

(* Faulty variant: the UPDATE is lost. *)
OrmUpdateLost(row, loaded, obj) == row

(* Faulty variant: the UPDATE writes every column of the object. *)
OrmUpdateWholeRow(row, loaded, obj) == obj

(* session.add(obj); session.commit() of a detached object: the UPDATE sets the
   columns whose attribute was assigned a value other than the loaded one. *)
OrmUpdate(row, loaded, obj) ==
    [f \in DOMAIN row |-> IF obj[f] # loaded[f] THEN obj[f] ELSE row[f]]

(* session.merge(obj); session.commit(): every attribute of obj is copied onto
   the persistent row. *)
OrmMerge(row, obj) == obj

(* db_set_snapshot_pending: the UPDATE runs in a session that is closed without
   a commit (autocommit=False), so it is rolled back. *)
db_set_snapshot_pending(snaps, s) == snaps

(* db_get_document_by_notion_id: the ids of the documents with that reference id
   (the code takes .first() of them). *)
db_get_document_by_notion_id(notion_id) ==
    {d \in DOMAIN documents : documents[d].reference_id = notion_id}

(* db_get_previous_snapshot: the snapshot of the same document with the greatest
   triggered_at before s's, NULL when there is none. *)
db_get_previous_snapshot(s) ==
    LET older == {o \in DOMAIN snapshots :
                     /\ snapshots[s].document_id # None
                     /\ snapshots[o].document_id = snapshots[s].document_id
                     /\ snapshots[o].triggered_at < snapshots[s].triggered_at}
    IN IF older = {} THEN None
       ELSE LET o == CHOOSE o \in older :
                        \A q \in older : snapshots[q].triggered_at <= snapshots[o].triggered_at
            IN Some([id |-> o, document_structure |-> snapshots[o].document_structure])

(* Faulty variant: ORDER BY version ASC LIMIT 2. *)
db_get_oldest_content_pair_by_id(element_id) ==
    LET rows == {r \in document_element_contents : r.document_element_id = element_id}
        Oldest(rs) == CHOOSE r \in rs : \A q \in rs : r.version <= q.version
    IN IF rows = {} THEN <<>>
       ELSE LET first == Oldest(rows)
            IN IF rows = {first} THEN <<first>>
               ELSE <<first, Oldest(rows \ {first})>>

(* db_get_latest_content_pair_by_id: ORDER BY version DESC LIMIT 2. *)
db_get_latest_content_pair_by_id(element_id) ==
    LET rows == {r \in document_element_contents : r.document_element_id = element_id}
        Newest(rs) == CHOOSE r \in rs : \A q \in rs : q.version <= r.version
    IN IF rows = {} THEN <<>>
       ELSE LET first == Newest(rows)
            IN IF rows = {first} THEN <<first>>
               ELSE <<first, Newest(rows \ {first})>>

(* The idle state of a task that was never sent. *)
NoTask == [pc |-> "none"]

(* The tasks that were delivered a second time, and the deliveries of
   sync_from_notion so far. *)
Redelivered ==
    {<<"sync", s>> : s \in {o \in DOMAIN sync :
        "deliveries" \in DOMAIN sync[o] /\ sync[o].deliveries > 1}}
    \cup {<<"dstruct", s>> : s \in {o \in DOMAIN dstruct :
        "deliveries" \in DOMAIN dstruct[o] /\ dstruct[o].deliveries > 1}}
    \cup {<<"delems", s>> : s \in {o \in DOMAIN delems :
        "deliveries" \in DOMAIN delems[o] /\ delems[o].deliveries > 1}}

SyncDeliveries ==
    Len(snapshots) + Cardinality({r \in Redelivered : r[1] = "sync"})

(* create_new_document / handle_notion_webhook: db_create_snapshot, then
   sync_from_notion.delay. *)
NewSnapshot(ref) ==
    /\ clock' = [clock EXCEPT !.db = @ + 1]
    /\ snapshots' = Append(snapshots, Snapshot(ref, clock'.db))
    /\ sync' = Append(sync, [pc |-> "queued", deliveries |-> 1, prior |-> None])
    /\ dstruct' = Append(dstruct, NoTask)
    /\ delems' = Append(delems, NoTask)
    /\ UNCHANGED <<storeVars, txVars>>

CreateSnapshot(ref) ==
    /\ SyncDeliveries < MaxSnapshots
    /\ NewSnapshot(ref)

(* Faulty variant: a run that fails still commits what the session holds. *)
SessionCommittedAlways(res) == TRUE

(* The with Session() block of sync_from_notion reaches session.commit() only
   when the traversal raised nothing; leaving it otherwise rolls back. *)
SessionCommitted(res) == res.failed = None

(* Faulty variant: "and" for "or". *)
SnapshotStatusAnd(changed_elems, is_update) ==
    IF changed_elems = <<>> /\ ~is_update THEN "done" ELSE "processing_diffs"

(* normalize.py 252. *)
SnapshotStatus(changed_elems, is_update) ==
    IF changed_elems = <<>> \/ ~is_update THEN "done" ELSE "processing_diffs"

(* Faulty variant: the diff tasks are sent after every run. *)
EnqueueDiffsAlways(is_update) == TRUE

(* normalize.py 258. *)
EnqueueDiffs(is_update) == is_update

(* The triggers fired by the session's INSERTs of one flush, on element id. *)
ElementAfterInserts(el, id, session) ==
    LET ms == {r \in session.metadatas : r.document_element_id = id}
        cs == {r \in session.contents : r.document_element_id = id}
        el1 == IF ms = {} THEN el
               ELSE update_latest_metadata_version(el, CHOOSE r \in ms : TRUE)
    IN IF cs = {} THEN el1
       ELSE update_latest_content_version(el1, CHOOSE r \in cs : TRUE)

(* sync_from_notion, lines 64-84 and 217-234: load the snapshot, mark it
   pending, read the clock, retrieve the page, look the document up. *)
SyncBegin(s, fault) ==
    LET snapshot == snapshots[s]
        ref == snapshot.reference_id
        snapshot_timestamp == clock.worker + 1
        found == db_get_document_by_notion_id(ref)
        pending == db_set_snapshot_pending(snapshots, s)
    IN /\ s \in DOMAIN snapshots
       /\ sync[s].pc = "queued"
       /\ clock' = [clock EXCEPT !.worker = snapshot_timestamp]
       /\ UNCHANGED <<storeVars, txVars, dstruct, delems>>
       /\ \/ /\ fault = "none"
             /\ \E root_document \in (IF found = {} THEN {None}
                                      ELSE {Some(d) : d \in found}) :
                   sync' = [sync EXCEPT ![s] =
                              [pc |-> "started", snapshot |-> snapshot,
                               snapshot_timestamp |-> snapshot_timestamp,
                               root_document |-> root_document,
                               is_update |-> root_document # None,
                               deliveries |-> sync[s].deliveries,
                               prior |-> sync[s].prior]]
             /\ snapshots' = pending
          \/ /\ fault = "api"
             /\ sync' = [sync EXCEPT ![s] =
                            [pc |-> "raised", exc |-> "APIResponseError",
                             rolled_back |-> 0,
                             deliveries |-> sync[s].deliveries]]
             /\ snapshots' = pending
          \/ /\ fault = "shape"
             /\ found = {}
             /\ sync' = [sync EXCEPT ![s] =
                            [pc |-> "raised", exc |-> "Exception",
                             rolled_back |-> 0,
                             deliveries |-> sync[s].deliveries]]
             /\ snapshots' =
                   [pending EXCEPT ![s] =
                       OrmMerge(@, [snapshot EXCEPT
                                       !.status = "error",
                                       !.error = Some("Processing failed"),
                                       !.executed_at = Some(snapshot_timestamp)])]

(* sync_from_notion, lines 236-287: the session with the traversal, the commit
   and the fan-out, or the error handlers. *)
SyncNormalize(s, page, fault) ==
    LET snapshot == sync[s].snapshot
        ref == snapshot.reference_id
        ts == sync[s].snapshot_timestamp
        is_update == sync[s].is_update
        document_id == IF is_update THEN The(sync[s].root_document)
                       ELSE Cardinality(DOMAIN documents) + 1
        res == dfs_notion_tree(ref, page, 0, 0, EmptySession,
                   [snapshot_timestamp |-> ts, document_id |-> document_id,
                    document_elements |-> document_elements, fault |-> fault])
        session == res.session
        obj == [snapshot EXCEPT
                   !.document_id = Some(document_id),
                   !.document_structure = Some(res.document_structure),
                   !.changed_elements = Some(res.changed_elems),
                   !.executed_at = Some(ts),
                   !.status = SnapshotStatus(res.changed_elems, is_update)]
    IN /\ s \in DOMAIN snapshots
       /\ sync[s].pc = "started"
       /\ page \in Pages(ref)
       /\ fault \in Faults(ref, page)
       /\ UNCHANGED <<txVars>>
       /\ IF SessionCommitted(res)
          THEN /\ documents' =
                    IF is_update
                    THEN [documents EXCEPT ![document_id].updated_at = ts]
                    ELSE Append(documents, [reference_id |-> ref, updated_at |-> clock.db])
               /\ document_elements' =
                    [id \in DOMAIN document_elements \cup session.elements |->
                        ElementAfterInserts(
                            IF id \in session.elements
                            THEN DocumentElement(document_id)
                            ELSE document_elements[id], id, session)]
               /\ document_element_metadatas' =
                    InsertRows(document_element_metadatas, session.metadatas)
               /\ document_element_contents' =
                    InsertRows(document_element_contents, session.contents)
          ELSE /\ UNCHANGED storeVars
       /\ UNCHANGED clock
       /\ IF res.failed = None
          THEN /\ snapshots' = [snapshots EXCEPT ![s] = OrmUpdate(@, snapshot, obj)]
               /\ sync' = [sync EXCEPT ![s] =
                             [pc |-> "returned", snapshot_timestamp |-> ts,
                              is_update |-> is_update, page |-> page,
                              committed |-> OrmUpdate(snapshots[s], snapshot, obj),
                              deliveries |-> sync[s].deliveries,
                              prior |-> sync[s].prior]]
               /\ dstruct' =
                    IF EnqueueDiffs(is_update)
                    THEN [dstruct EXCEPT ![s] =
                            [pc |-> "queued", new_structure |-> res.document_structure,
                             deliveries |-> 1, prior |-> None]]
                    ELSE dstruct
               /\ delems' =
                    IF EnqueueDiffs(is_update)
                    THEN [delems EXCEPT ![s] =
                            [pc |-> "queued", deliveries |-> 1, prior |-> None]]
                    ELSE delems
          ELSE /\ sync' = [sync EXCEPT ![s] =
                             [pc |-> "raised", exc |-> The(res.failed),
                              rolled_back |-> Cardinality(session.contents),
                              deliveries |-> sync[s].deliveries]]
               /\ snapshots' =
                    IF res.failed = Some("APIResponseError")
                    THEN snapshots
                    ELSE [snapshots EXCEPT ![s] =
                            OrmMerge(@, [snapshot EXCEPT
                                            !.status = "error",
                                            !.error = Some("Processing failed"),
                                            !.executed_at = Some(ts)])]
               /\ UNCHANGED <<dstruct, delems>>

(* jsondiff scores similarity with floats in [0, 1]; the model keeps them as
   exact fractions <<n, d>> in lowest terms. *)
RECURSIVE GCD(_, _)
GCD(a, b) == IF b = 0 THEN a ELSE GCD(b, a % b)

Frac(n, d) == IF n = 0 THEN <<0, 1>> ELSE <<n \div GCD(n, d), d \div GCD(n, d)>>

FracZero == Frac(0, 1)

FracOne == Frac(1, 1)

FracAdd(a, b) == Frac(a[1] * b[2] + b[1] * a[2], a[2] * b[2])

FracLess(a, b) == a[1] * b[2] < b[1] * a[2]

FracMax(a, b) == IF FracLess(a, b) THEN b ELSE a

RECURSIVE FracSum(_, _)
FracSum(r, k) == IF k = 0 THEN FracZero ELSE FracAdd(FracSum(r, k - 1), r[k].s)

Reverse(seq) == [k \in 1..Len(seq) |-> seq[Len(seq) + 1 - k]]

(* The payloads of the symmetric syntax: {} for no change, [a, b] for a
   replacement, {key: diff} for a dict whose value changed, and
   {pos: diff, ..., $insert: [(pos, value)], $delete: [(pos, value)]} for a
   list. *)
NoChange == [kind |-> "same"]

Replaced(a, b) == [kind |-> "replace", old |-> a, new |-> b]

(* SymmetricJsonDiffSyntax.emit_list_diff. *)
emit_list_diff(a, b, s, inserted, changed, deleted) ==
    IF s = FracZero THEN Replaced(a, b)
    ELSE IF s = FracOne THEN NoChange
    ELSE [kind |-> "ops", changed |-> changed, insert |-> inserted, delete |-> deleted]

(* JsonDiffer._list_diff_0: walk the LCS matrix C back from (i, j); S[i, j] is
   _obj_diff(X[i], Y[j]).  Positions are counted from 0 as in the library. *)
RECURSIVE list_diff_0(_, _, _, _, _, _)
list_diff_0(C, S, X, Y, i, j) ==
    IF /\ i > 0 /\ j > 0
       /\ FracLess(FracZero, S[i, j].s)
       /\ C[i, j] = FracAdd(C[i - 1, j - 1], S[i, j].s)
    THEN Append(list_diff_0(C, S, X, Y, i - 1, j - 1),
                [sign |-> 0, value |-> S[i, j].d, pos |-> j - 1, s |-> S[i, j].s])
    ELSE IF j > 0 /\ (i = 0 \/ ~FracLess(C[i, j - 1], C[i - 1, j]))
    THEN Append(list_diff_0(C, S, X, Y, i, j - 1),
                [sign |-> 1, value |-> Y[j], pos |-> j - 1, s |-> FracZero])
    ELSE IF i > 0 /\ (j = 0 \/ FracLess(C[i, j - 1], C[i - 1, j]))
    THEN Append(list_diff_0(C, S, X, Y, i - 1, j),
                [sign |-> -1, value |-> X[i], pos |-> i - 1, s |-> FracZero])
    ELSE <<>>

RECURSIVE list_diff(_, _)
RECURSIVE dict_diff(_, _)

(* JsonDiffer._dict_diff for two entries {id: children} of a structure: other
   keys share nothing (similarity 0); the same key scores 0.5 * s + 0.5 with s
   the similarity of the two child lists. *)
dict_diff(a, b) ==
    IF a.id # b.id
    THEN [d |-> Replaced(<<a>>, <<b>>), s |-> FracZero]
    ELSE LET sub == list_diff(a.children, b.children)
             s == Frac(sub.s[1] + sub.s[2], 2 * sub.s[2])
         IN [d |-> IF s = FracOne THEN NoChange
                   ELSE [kind |-> "changed", key |-> a.id, diff |-> sub.d],
             s |-> s]

(* JsonDiffer._list_diff: the weighted LCS of two lists of entries. *)
list_diff(X, Y) ==
    LET m == Len(X)
        n == Len(Y)
        S == [i \in 1..m, j \in 1..n |-> dict_diff(X[i], Y[j])]
        C[i \in 0..m, j \in 0..n] ==
            IF i = 0 \/ j = 0 THEN FracZero
            ELSE FracMax(FracMax(C[i, j - 1], C[i - 1, j]),
                         FracAdd(C[i - 1, j - 1], S[i, j].s))
        r == list_diff_0(C, S, X, Y, m, n)
        ins == SelectSeq(r, LAMBDA e : e.sign = 1)
        del == SelectSeq(r, LAMBDA e : e.sign = -1)
        chg == SelectSeq(r, LAMBDA e : e.sign = 0 /\ FracLess(e.s, FracOne))
        inserted == [k \in 1..Len(ins) |-> <<ins[k].pos, ins[k].value>>]
        deleted == Reverse([k \in 1..Len(del) |-> <<del[k].pos, del[k].value>>])
        changed == [k \in 1..Len(chg) |-> [pos |-> chg[k].pos, diff |-> chg[k].value]]
        tot_s == FracSum(r, Len(r))
        tot_n == m + Len(ins)
        s == IF tot_n = 0 THEN FracOne ELSE Frac(tot_s[1], tot_s[2] * tot_n)
    IN [d |-> emit_list_diff(X, Y, s, inserted, changed, deleted), s |-> s]

(* Faulty variant: the diff of equal structures is not the empty payload. *)
jsondiff_diff_never_empty(old_structure, new_structure) ==
    <<list_diff(old_structure, new_structure).d>>

(* jsondiff.diff(old, new, syntax="symmetric", dump=True) of two structures
   (lists of {id: children}).  The dumped payload is either the empty object,
   <<>> here, or one non-empty payload. *)
jsondiff_diff(old_structure, new_structure) ==
    LET d == list_diff(old_structure, new_structure).d
    IN IF d.kind = "same" THEN <<>> ELSE <<d>>

(* str(i) of a list position. *)
IntStr(i) == <<"0", "1", "2", "3", "4", "5", "6", "7", "8", "9">>[i + 1]

(* An operation collected by parse_jsondiff_symmetric: (path, idx, value); a
   path "a.b.c" is kept as the sequence of its parts. *)
Operation(path, item) == [path |-> path, idx |-> item[1], val |-> item[2]]

(* collect_operations (streamlit_app.py 424-453): the $insert and $delete
   items of every level.  A replacement [a, b] and the entries below it carry
   no $insert/$delete key. *)
RECURSIVE collect_operations(_, _)
RECURSIVE collect_nested(_, _, _)
collect_nested(changed, k, path) ==
    IF k > Len(changed) THEN [inserts |-> <<>>, deletes |-> <<>>]
    ELSE LET here == collect_operations(changed[k].diff,
                                        Append(path, IntStr(changed[k].pos)))
             rest == collect_nested(changed, k + 1, path)
         IN [inserts |-> here.inserts \o rest.inserts,
             deletes |-> here.deletes \o rest.deletes]

collect_operations(data, path) ==
    IF data.kind = "ops"
    THEN LET nested == collect_nested(data.changed, 1, path)
         IN [inserts |-> [k \in 1..Len(data.insert) |-> Operation(path, data.insert[k])]
                         \o nested.inserts,
             deletes |-> [k \in 1..Len(data.delete) |-> Operation(path, data.delete[k])]
                         \o nested.deletes]
    ELSE IF data.kind = "changed"
    THEN collect_operations(data.diff, Append(path, data.key))
    ELSE [inserts |-> <<>>, deletes |-> <<>>]

(* process_diff (455-498): at a level that has as many $insert as $delete
   items they are paired in order and reported as changes.  The keys of a
   parsed JSON object are strings, so the two-integer-keys case never applies. *)
RECURSIVE process_diff(_, _)
RECURSIVE process_nested(_, _, _)
process_nested(changed, k, path) ==
    IF k > Len(changed) THEN <<>>
    ELSE process_diff(changed[k].diff, Append(path, IntStr(changed[k].pos)))
         \o process_nested(changed, k + 1, path)

process_diff(data, path) ==
    IF data.kind = "ops"
    THEN (IF Len(data.insert) > 0 /\ Len(data.insert) = Len(data.delete)
          THEN [k \in 1..Len(data.delete) |->
                   [kind |-> IF data.delete[k][1] # data.insert[k][1]
                             THEN "moved" ELSE "replaced",
                    del |-> Operation(path, data.delete[k]),
                    ins |-> Operation(path, data.insert[k])]]
          ELSE <<>>)
         \o process_nested(data.changed, 1, path)
    ELSE IF data.kind = "changed"
    THEN process_diff(data.diff, Append(path, data.key))
    ELSE <<>>

(* The matching loop (507-520): each delete takes the first insert not yet
   matched that has an equal value and another path.  The result is the set of
   matched index pairs <<i, j>>. *)
RECURSIVE match_operations(_, _, _, _)
match_operations(i, all_deletes, all_inserts, matched) ==
    IF i > Len(all_deletes) THEN matched
    ELSE LET matched_inserts == {p[2] : p \in matched}
             found == {j \in 1..Len(all_inserts) :
                          /\ j \notin matched_inserts
                          /\ all_deletes[i].val = all_inserts[j].val
                          /\ all_deletes[i].path # all_inserts[j].path}
             first == CHOOSE j \in found : \A o \in found : j <= o
         IN match_operations(i + 1, all_deletes, all_inserts,
                IF found = {} THEN matched ELSE matched \cup {<<i, first>>})

(* The concatenation of the first k sequences of seqs. *)
RECURSIVE Flatten(_, _)
Flatten(seqs, k) == IF k = 0 THEN <<>> ELSE Flatten(seqs, k - 1) \o seqs[k]

(* parse_jsondiff_symmetric (398-536) of a non-empty payload. *)
parse_jsondiff_symmetric(diff_data) ==
    LET ops == collect_operations(diff_data, <<>>)
        all_deletes == ops.deletes
        all_inserts == ops.inserts
        matched == match_operations(1, all_deletes, all_inserts, {})
        matched_deletes == {p[1] : p \in matched}
        matched_inserts == {p[2] : p \in matched}
        hierarchy ==
            [k \in 1..Len(all_deletes) |->
                IF k \in matched_deletes
                THEN <<[kind |-> "hierarchy change", del |-> all_deletes[k],
                        ins |-> all_inserts[CHOOSE j \in matched_inserts :
                                                <<k, j>> \in matched]]>>
                ELSE <<>>]
        removed ==
            [k \in 1..Len(all_deletes) |->
                IF k \in matched_deletes THEN <<>> ELSE <<all_deletes[k]>>]
        added ==
            [k \in 1..Len(all_inserts) |->
                IF k \in matched_inserts THEN <<>> ELSE <<all_inserts[k]>>]
    IN [added |-> Flatten(added, Len(added)),
        removed |-> Flatten(removed, Len(removed)),
        changed |-> Flatten(hierarchy, Len(hierarchy)) \o process_diff(diff_data, <<>>)]

(* difflib.unified_diff with the two version headers: no lines at all for
   equal texts. *)
unified_diff(element_id, old_content, new_content) ==
    IF old_content.content_raw = new_content.content_raw THEN <<>>
    ELSE <<[fromfile |-> <<element_id, old_content.version>>,
            tofile |-> <<element_id, new_content.version>>,
            removed |-> old_content.content_raw,
            added |-> new_content.content_raw]>>

(* Faulty variant: a failure met on a row that already records one is
   recorded under another message. *)
RecordErrorAppending(snapshot, message) ==
    [snapshot EXCEPT !.status = "error",
                     !.error = IF snapshot.error = None THEN Some(message)
                               ELSE Some("Repeated failure")]

(* The error handlers of the diff tasks (diff.py 255-257, 337-339):
   snapshot.status = "error"; snapshot.error = message. *)
RecordError(snapshot, message) ==
    [snapshot EXCEPT !.status = "error", !.error = Some(message)]

(* A diff task that has ended: its record keeps what the task read and adds the
   store it left behind (the snapshot rows and the content rows a diff task
   reads) and whether a database fault ended it. *)
Ended(task, pc, snaps, faulted) ==
    [pc |-> pc, faulted |-> faulted,
     after |-> [snapshots |-> snaps, contents |-> document_element_contents]] @@ task

(* What the database calls of the diff tasks may do: answer, or raise (an
   OperationalError of the connection). *)
DbFaults == {"none", "db"}

(* diff_structure, lines 286-293: load the snapshot and its predecessor.  The
   two lookups stand before the try block: when db_get_previous_snapshot raises,
   the task ends with no handler run ("crashed"). *)
DiffStructureLoad(s, fault) ==
    /\ s \in DOMAIN snapshots
    /\ dstruct[s].pc = "queued"
    /\ dstruct' = [dstruct EXCEPT ![s] =
                     IF fault = "db"
                     THEN Ended([snapshot |-> snapshots[s]] @@ dstruct[s],
                                "crashed", snapshots, TRUE)
                     ELSE [pc |-> "loaded", snapshot |-> snapshots[s],
                           old_snapshot |-> db_get_previous_snapshot(s)] @@ dstruct[s]]
    /\ UNCHANGED <<storeVars, txVars, snapshots, clock, sync, delems>>

(* What the try block of diff_structure (295-328) raises: old_snapshot is None
   (AttributeError) or its document_structure is None (TypeError of json.loads). *)
DiffStructureRaises(old_snapshot) ==
    old_snapshot = None \/ The(old_snapshot).document_structure = None

(* diff_structure, lines 294-347: the diff and its write-back, or the error
   handler. *)
DiffStructureFinish(s) ==
    LET snapshot == dstruct[s].snapshot
        old_snapshot == dstruct[s].old_snapshot
        new_structure == dstruct[s].new_structure
    IN /\ s \in DOMAIN snapshots
       /\ dstruct[s].pc = "loaded"
       /\ UNCHANGED <<storeVars, txVars, clock, sync, delems>>
       /\ IF DiffStructureRaises(old_snapshot)
          THEN /\ snapshots' =
                    [snapshots EXCEPT ![s] =
                        OrmUpdate(@, snapshot,
                                  RecordError(snapshot, "Structure diff failed"))]
               /\ dstruct' = [dstruct EXCEPT ![s] = Ended(@, "raised", snapshots', FALSE)]
          ELSE LET old_structure == The(The(old_snapshot).document_structure)
                   diff_summary ==
                       [old_elements_count |-> Len(old_structure),
                        new_elements_count |-> Len(new_structure),
                        raw_diff |-> jsondiff_diff(old_structure, new_structure)]
               IN /\ snapshots' =
                       [snapshots EXCEPT ![s] =
                           OrmUpdate(@, snapshot,
                                     [snapshot EXCEPT
                                         !.document_structure_diff = Some(diff_summary)])]
                  /\ dstruct' = [dstruct EXCEPT ![s] = Ended(@, "done", snapshots', FALSE)]

(* diff_elements, lines 207-210: load the snapshot. *)
DiffElementsLoad(s) ==
    /\ s \in DOMAIN snapshots
    /\ delems[s].pc = "queued"
    /\ delems' = [delems EXCEPT ![s] =
                    [pc |-> "loaded", snapshot |-> snapshots[s]] @@ delems[s]]
    /\ UNCHANGED <<storeVars, txVars, snapshots, clock, sync, dstruct>>

(* Faulty variant: every listed element gets an entry, an empty one when it has
   no two versions. *)
summary_diff_every_listed(changed_elements) ==
    LET ids == {changed_elements[i] : i \in DOMAIN changed_elements}
    IN [id \in ids |->
           LET contents == db_get_latest_content_pair_by_id(id)
           IN IF Len(contents) >= 2 THEN unified_diff(id, contents[2], contents[1])
              ELSE <<>>]

(* summary_diff of diff_elements (214-240): one entry per listed element that
   has two content versions. *)
summary_diff(changed_elements) ==
    LET ids == {changed_elements[i] : i \in DOMAIN changed_elements}
        diffed == {id \in ids : Len(db_get_latest_content_pair_by_id(id)) >= 2}
    IN [id \in diffed |->
           LET contents == db_get_latest_content_pair_by_id(id)
           IN unified_diff(id, contents[2], contents[1])]

(* What the try block of diff_elements (212-246) raises: json.loads of a NULL
   changed_elements (TypeError), or db_get_latest_content_pair_by_id, called
   once per listed element, raising. *)
DiffElementsRaises(snapshot, fault) ==
    \/ snapshot.changed_elements = None
    \/ fault = "db" /\ The(snapshot.changed_elements) # <<>>

(* diff_elements, lines 212-265: the content diffs and their write-back, or
   the error handler. *)
DiffElementsFinish(s, fault) ==
    LET snapshot == delems[s].snapshot
    IN /\ s \in DOMAIN snapshots
       /\ delems[s].pc = "loaded"
       /\ fault = "db" => DiffElementsRaises(snapshot, fault)
       /\ UNCHANGED <<storeVars, txVars, clock, sync, dstruct>>
       /\ IF DiffElementsRaises(snapshot, fault)
          THEN /\ snapshots' =
                    [snapshots EXCEPT ![s] =
                        OrmUpdate(@, snapshot,
                                  RecordError(snapshot, "Element diff failed"))]
               /\ delems' = [delems EXCEPT ![s] =
                               Ended(@, "raised", snapshots', fault = "db")]
          ELSE /\ snapshots' =
                    [snapshots EXCEPT ![s] =
                        OrmUpdate(@, snapshot,
                                  [snapshot EXCEPT
                                      !.changed_elements_diff =
                                          Some(summary_diff(The(snapshot.changed_elements)))])]
               /\ delems' = [delems EXCEPT ![s] = Ended(@, "done", snapshots', FALSE)]

Init ==
    /\ documents = <<>>
    /\ document_elements = <<>>
    /\ document_element_metadatas = {}
    /\ document_element_contents = {}
    /\ snapshots = <<>>
    /\ clock = [db |-> 0, worker |-> 0]
    /\ txElems = [t \in Txs |-> <<>>]
    /\ txMetadatas = [t \in Txs |-> {}]
    /\ txContents = [t \in Txs |-> {}]
    /\ sync = <<>>
    /\ dstruct = <<>>
    /\ delems = <<>>

Next ==
    \/ \E ref \in RefIds : CreateSnapshot(ref)
    \/ \E s \in 1..MaxSnapshots :
          \/ \E fault \in {"none", "api", "shape"} : SyncBegin(s, fault)
          \/ \E page \in AllPages : \E fault \in AllFaults : SyncNormalize(s, page, fault)
          \/ \E fault \in DbFaults : DiffStructureLoad(s, fault)
          \/ DiffStructureFinish(s)
          \/ DiffElementsLoad(s)
          \/ \E fault \in DbFaults : DiffElementsFinish(s, fault)

Spec == Init /\ [][Next]_vars

(* The scheduling the design assumes for one document: a run of
   sync_from_notion begins only while no other run for the same reference id is
   in flight. *)
Serialized(s) ==
    \A o \in DOMAIN snapshots :
        (o # s /\ snapshots[o].reference_id = snapshots[s].reference_id)
            => sync[o].pc # "started"

SyncBeginSerial(s, fault) ==
    /\ s \in DOMAIN snapshots
    /\ Serialized(s)
    /\ SyncBegin(s, fault)

NextSerial ==
    \/ \E ref \in RefIds : CreateSnapshot(ref)
    \/ \E s \in 1..MaxSnapshots :
          \/ \E fault \in {"none", "api", "shape"} : SyncBeginSerial(s, fault)
          \/ \E page \in AllPages : \E fault \in AllFaults : SyncNormalize(s, page, fault)
          \/ \E fault \in DbFaults : DiffStructureLoad(s, fault)
          \/ DiffStructureFinish(s)
          \/ DiffElementsLoad(s)
          \/ \E fault \in DbFaults : DiffElementsFinish(s, fault)

SpecSerial == Init /\ [][NextSerial]_vars

(* A backlog: more snapshots of the one-block document p2 than the other
   specifications allow, processed in any order. *)
MaxBacklog == 3      \* SpecBacklog: snapshots of p2 over a run

CreateSnapshotBacklog ==
    /\ Len(snapshots) < MaxBacklog
    /\ NewSnapshot("p2")

NextBacklog ==
    \/ CreateSnapshotBacklog
    \/ \E s \in 1..MaxBacklog :
          \/ \E fault \in {"none", "api", "shape"} : SyncBegin(s, fault)
          \/ \E page \in AllPages : \E fault \in AllFaults : SyncNormalize(s, page, fault)
          \/ \E fault \in DbFaults : DiffStructureLoad(s, fault)
          \/ DiffStructureFinish(s)
          \/ DiffElementsLoad(s)
          \/ \E fault \in DbFaults : DiffElementsFinish(s, fault)

SpecBacklog == Init /\ [][NextBacklog]_vars

(* A task is delivered again (task_acks_late, a retry by the caller): the same
   task with the same arguments, once the earlier delivery is over.  prior keeps
   what the earlier delivery met and left.  sync_from_notion sends the diff
   tasks anew, so it is delivered again only when none of them is in flight. *)
DiffTaskOver(task) == task.pc \in {"none", "done", "raised", "crashed"}

CanRedeliver(task) ==
    task.deliveries = 1 /\ Cardinality(Redelivered) < MaxRedeliveries

SyncRedeliver(s) ==
    /\ s \in DOMAIN snapshots
    /\ sync[s].pc = "returned"
    /\ CanRedeliver(sync[s])
    /\ SyncDeliveries < MaxSnapshots
    /\ DiffTaskOver(dstruct[s]) /\ DiffTaskOver(delems[s])
    /\ sync' = [sync EXCEPT ![s] =
                  [pc |-> "queued", deliveries |-> sync[s].deliveries + 1,
                   prior |-> Some([page |-> sync[s].page,
                                   committed |-> sync[s].committed,
                                   row |-> snapshots[s]])]]
    /\ UNCHANGED <<storeVars, txVars, snapshots, clock, dstruct, delems>>

DiffStructureRedeliver(s) ==
    /\ s \in DOMAIN snapshots
    /\ dstruct[s].pc \in {"done", "raised", "crashed"}
    /\ CanRedeliver(dstruct[s])
    /\ dstruct' = [dstruct EXCEPT ![s] =
                     [pc |-> "queued", new_structure |-> dstruct[s].new_structure,
                      deliveries |-> dstruct[s].deliveries + 1,
                      prior |-> Some([after |-> dstruct[s].after,
                                      faulted |-> dstruct[s].faulted])]]
    /\ UNCHANGED <<storeVars, txVars, snapshots, clock, sync, delems>>

DiffElementsRedeliver(s) ==
    /\ s \in DOMAIN snapshots
    /\ delems[s].pc \in {"done", "raised"}
    /\ CanRedeliver(delems[s])
    /\ delems' = [delems EXCEPT ![s] =
                    [pc |-> "queued", deliveries |-> delems[s].deliveries + 1,
                     prior |-> Some([after |-> delems[s].after,
                                     faulted |-> delems[s].faulted])]]
    /\ UNCHANGED <<storeVars, txVars, snapshots, clock, sync, dstruct>>

NextRetry ==
    \/ Next
    \/ \E s \in 1..MaxSnapshots :
          \/ SyncRedeliver(s)
          \/ DiffStructureRedeliver(s)
          \/ DiffElementsRedeliver(s)

SpecRetry == Init /\ [][NextRetry]_vars

----------------------------------------------------------------------------
(* C1: in every committed state, for every element, latest_metadata_version
   is the maximum version among its metadata rows and latest_content_version
   the maximum among its content rows, NULL when it has none. *)
C1_PointersAreMax ==
    \A id \in DOMAIN document_elements :
        metadata_consistent(id) /\ content_consistent(id)

(* An out-of-order insert in flight: an open transaction holds an uncommitted
   content row older than the committed content pointer of its element, which
   also has a committed metadata version. *)
C1_Witness ==
    \E id \in DOMAIN document_elements :
        /\ document_elements[id].latest_metadata_version # None
        /\ \E t \in Txs : \E r \in txContents[t] :
              r.document_element_id = id
              /\ document_elements[id].latest_content_version # None
              /\ The(document_elements[id].latest_content_version) > r.version

----------------------------------------------------------------------------
(* Steps of sync_from_notion, as seen on a snapshot's task state. *)
Dispatched(s) == sync[s].pc = "queued" /\ sync'[s].pc = "started"
NormalizationSucceeds(s) == sync[s].pc = "started" /\ sync'[s].pc = "returned"
NormalizationFails(s) == sync[s].pc \in {"queued", "started"} /\ sync'[s].pc = "raised"

(* The run whose commit is the latest one for s's reference id: the returned
   run, other than s, with the greatest snapshot_timestamp. *)
LastRunBefore(s, o) ==
    /\ o # s
    /\ sync[o].pc = "returned"
    /\ snapshots[o].reference_id = snapshots[s].reference_id
    /\ \A q \in DOMAIN snapshots :
          (q # s /\ sync[q].pc = "returned"
              /\ snapshots[q].reference_id = snapshots[s].reference_id)
            => sync[q].snapshot_timestamp <= sync[o].snapshot_timestamp

(* C2: every change of a snapshot's status is one of open->pending,
   pending->done, pending->processing_diffs, pending->error,
   processing_diffs->done, processing_diffs->error, and a new snapshot starts
   in open. *)
C2_StatusTransitions ==
    [][\A s \in DOMAIN snapshots' :
          IF s \in DOMAIN snapshots
          THEN snapshots'[s].status # snapshots[s].status
                  => <<snapshots[s].status, snapshots'[s].status>> \in
                        {<<"open", "pending">>, <<"pending", "done">>,
                         <<"pending", "processing_diffs">>, <<"pending", "error">>,
                         <<"processing_diffs", "done">>,
                         <<"processing_diffs", "error">>}
          ELSE snapshots'[s].status = "open"]_vars

(* C3: a snapshot in processing_diffs reaches done or error once both its diff
   tasks have written back: with both tasks over (nothing is left to run for the
   snapshot), its status is no longer processing_diffs. *)
C3_ProcessingDiffsResolved ==
    \A s \in DOMAIN snapshots :
        (dstruct[s].pc \in {"done", "raised"} /\ delems[s].pc \in {"done", "raised"})
            => snapshots[s].status # "processing_diffs"

(* C4: when normalization succeeds the status becomes done if and only if no
   Document existed for the reference id when the run looked it up, or the
   changed-element list is empty; otherwise it becomes processing_diffs. *)
C4_StatusAfterNormalization ==
    [][\A s \in DOMAIN snapshots :
          /\ Dispatched(s) =>
                (sync'[s].is_update
                    <=> db_get_document_by_notion_id(snapshots[s].reference_id) # {})
          /\ NormalizationSucceeds(s) =>
                /\ snapshots'[s].status \in {"done", "processing_diffs"}
                /\ snapshots'[s].status = "done"
                      <=> (~sync[s].is_update
                           \/ snapshots'[s].changed_elements = Some(<<>>))]_vars

(* A first ingestion that ended done next to an update that ended
   processing_diffs. *)
C4_Witness ==
    \E s, o \in DOMAIN snapshots :
        /\ sync[s].pc = "returned" /\ sync[s].is_update
        /\ snapshots[s].changed_elements # Some(<<>>)
        /\ snapshots[s].status = "processing_diffs"
        /\ sync[o].pc = "returned" /\ ~sync[o].is_update
        /\ snapshots[o].status = "done"

(* C5: when normalization succeeds on an update and the tree structure changed
   while no existing element's text changed, the status becomes
   processing_diffs. *)
C5_StructureChangeProcessesDiffs ==
    [][\A s \in DOMAIN snapshots :
          (/\ NormalizationSucceeds(s)
           /\ sync[s].is_update
           /\ snapshots'[s].changed_elements = Some(<<>>)
           /\ \E o \in DOMAIN snapshots :
                 /\ LastRunBefore(s, o)
                 /\ snapshots[o].document_structure # snapshots'[s].document_structure)
            => snapshots'[s].status = "processing_diffs"]_vars

(* C6: the two diff tasks of a snapshot are sent only by a successful run that
   found a Document for the reference id; a first ingestion and a failed run
   send none. *)
C6_DiffsOnlyOnUpdate ==
    [][\A s \in DOMAIN snapshots :
          /\ Dispatched(s) =>
                (sync'[s].is_update
                    <=> db_get_document_by_notion_id(snapshots[s].reference_id) # {})
          /\ (dstruct'[s].pc # dstruct[s].pc /\ dstruct[s].pc = "none")
             \/ (delems'[s].pc # delems[s].pc /\ delems[s].pc = "none")
                => /\ NormalizationSucceeds(s)
                   /\ sync[s].is_update
                   /\ db_get_document_by_notion_id(snapshots[s].reference_id) # {}
          /\ (NormalizationFails(s) \/ (NormalizationSucceeds(s) /\ ~sync[s].is_update))
                => dstruct'[s].pc = "none" /\ delems'[s].pc = "none"]_vars

(* An update with both diff tasks sent, next to a first ingestion and a failed
   run with none. *)
C6_Witness ==
    \E s \in DOMAIN snapshots :
        /\ sync[s].pc = "returned" /\ sync[s].is_update
        /\ dstruct[s].pc = "queued" /\ delems[s].pc = "queued"
        /\ \E o \in DOMAIN snapshots :
              /\ sync[o].pc = "returned" /\ ~sync[o].is_update
              /\ dstruct[o].pc = "none" /\ delems[o].pc = "none"

(* C7: with the runs of one reference id serialized, a second run against the
   source tree the latest run ingested writes no DocumentElement, Content or
   Metadata row and yields an empty changed-element list. *)
C7_UnchangedSourceWritesNothing ==
    [][\A s \in DOMAIN snapshots :
          (/\ NormalizationSucceeds(s)
           /\ \E o \in DOMAIN snapshots :
                 LastRunBefore(s, o) /\ sync[o].page = sync'[s].page)
            => /\ DOMAIN document_elements' = DOMAIN document_elements
               /\ document_element_metadatas' = document_element_metadatas
               /\ document_element_contents' = document_element_contents
               /\ snapshots'[s].changed_elements = Some(<<>>)]_vars

(* Two successful runs over the same page of several blocks for one reference
   id, the later one listing no changed element. *)
C7_Witness ==
    \E s, o \in DOMAIN snapshots :
        /\ s # o
        /\ sync[s].pc = "returned" /\ sync[o].pc = "returned"
        /\ sync[s].snapshot_timestamp > sync[o].snapshot_timestamp
        /\ snapshots[s].reference_id = snapshots[o].reference_id
        /\ sync[s].page = sync[o].page
        /\ Len(sync[s].page) > 1
        /\ snapshots[s].changed_elements = Some(<<>>)

(* C8: a run of sync_from_notion that fails, at whatever point of the
   traversal, leaves the Document, DocumentElement, Metadata and Content tables
   as they were before it. *)
C8_FailedRunLeavesNoRows ==
    [][\A s \in DOMAIN snapshots :
          NormalizationFails(s)
            => /\ documents' = documents
               /\ document_elements' = document_elements
               /\ document_element_metadatas' = document_element_metadatas
               /\ document_element_contents' = document_element_contents]_vars

(* A run that failed after it had added the rows of several blocks to its
   session, with the tables holding none of that run's version. *)
C8_Witness ==
    \E s \in DOMAIN snapshots :
        /\ sync[s].pc = "raised"
        /\ sync[s].rolled_back >= 2
        /\ document_element_contents = {}
        /\ documents = <<>>

(* C9: after a source-fetch error (APIResponseError of pages.retrieve or of
   blocks.children.list) the snapshot's persisted status is error and its error
   field holds a message. *)
C9_SourceErrorRecorded ==
    \A s \in DOMAIN snapshots :
        (sync[s].pc = "raised" /\ sync[s].exc = "APIResponseError")
            => snapshots[s].status = "error" /\ snapshots[s].error # None

(* C10: diff_structure for a snapshot without a preceding snapshot of the same
   document writes no structure diff, does not set status error, records no
   error message and does not fail. *)
C10_NoPreviousSnapshotIsNoOp ==
    \A s \in DOMAIN snapshots :
        (dstruct[s].pc \in {"done", "raised"} /\ dstruct[s].old_snapshot = None)
            => /\ dstruct[s].pc = "done"
               /\ snapshots[s].document_structure_diff = None
               /\ snapshots[s].status # "error"
               /\ snapshots[s].error = None

----------------------------------------------------------------------------
(* The fields of a snapshot row other than f are the same before and after the
   step, and so is every other snapshot row. *)
OnlyFieldChanges(s, f) ==
    /\ \A g \in DOMAIN snapshots[s] \ {f} : snapshots'[s][g] = snapshots[s][g]
    /\ \A o \in DOMAIN snapshots \ {s} : snapshots'[o] = snapshots[o]

(* C11: in every interleaving of the load and write-back steps of the two diff
   tasks of a snapshot, the write-back of diff_structure changes only
   document_structure_diff and that of diff_elements only changed_elements_diff;
   once both have completed the row holds both diffs, next to the structure and
   the changed-element list normalization committed. *)
C11_DiffWritesDisjoint ==
    [][\A s \in DOMAIN snapshots :
          /\ (dstruct[s].pc = "loaded" /\ dstruct'[s].pc = "done")
                => OnlyFieldChanges(s, "document_structure_diff")
          /\ (delems[s].pc = "loaded" /\ delems'[s].pc = "done")
                => OnlyFieldChanges(s, "changed_elements_diff")
          /\ (dstruct'[s].pc = "done" /\ delems'[s].pc = "done")
                => /\ snapshots'[s].document_structure_diff # None
                   /\ snapshots'[s].changed_elements_diff # None
                   /\ snapshots'[s].document_structure = Some(dstruct'[s].new_structure)
                   /\ snapshots'[s].changed_elements # None]_vars

(* Both tasks completed after each had loaded the row before the other wrote:
   each holds a copy without the other's diff, and the row holds both. *)
C11_Witness ==
    \E s \in DOMAIN snapshots :
        /\ dstruct[s].pc = "done" /\ delems[s].pc = "done"
        /\ dstruct[s].snapshot.changed_elements_diff = None
        /\ delems[s].snapshot.document_structure_diff = None
        /\ snapshots[s].changed_elements # Some(<<>>)
        /\ snapshots[s].document_structure_diff # None
        /\ snapshots[s].changed_elements_diff # None

----------------------------------------------------------------------------
(* A diff task of s ends in failure in this step. *)
DiffStructureFails(s) ==
    dstruct[s].pc \in {"queued", "loaded"} /\ dstruct'[s].pc \in {"raised", "crashed"}
DiffElementsFails(s) == delems[s].pc = "loaded" /\ delems'[s].pc = "raised"

(* C12: a failing diff task changes nothing of the snapshot row but status and
   error, so the other task's result, document_structure and changed_elements
   stay; the other task is left where it was, free to take its next step, and
   once it has completed next to the failed one its result is on the row,
   whichever ran first. *)
C12_DiffFailureIsolated ==
    [][\A s \in DOMAIN snapshots :
          /\ (DiffStructureFails(s) \/ DiffElementsFails(s))
                => /\ \A g \in DOMAIN snapshots[s] \ {"status", "error"} :
                         snapshots'[s][g] = snapshots[s][g]
                   /\ \A o \in DOMAIN snapshots \ {s} : snapshots'[o] = snapshots[o]
          /\ DiffStructureFails(s) => delems'[s] = delems[s]
          /\ DiffElementsFails(s) => dstruct'[s] = dstruct[s]
          /\ (dstruct'[s].pc \in {"raised", "crashed"} /\ delems'[s].pc = "done")
                => snapshots'[s].changed_elements_diff # None
          /\ (delems'[s].pc = "raised" /\ dstruct'[s].pc = "done")
                => snapshots'[s].document_structure_diff # None]_vars

(* diff_structure failed first; diff_elements then loaded the row, already in
   status error, and still completed: its result is on the row, next to the
   committed structure. *)
C12_Witness ==
    \E s \in DOMAIN snapshots :
        /\ dstruct[s].pc = "raised" /\ delems[s].pc = "done"
        /\ delems[s].snapshot.status = "error"
        /\ snapshots[s].changed_elements # Some(<<>>)
        /\ snapshots[s].changed_elements_diff # None
        /\ snapshots[s].document_structure = Some(dstruct[s].new_structure)
        /\ snapshots[s].status = "error"

(* C13: once a diff task of a snapshot has failed on an exception raised after
   it loaded the snapshot, the snapshot's persisted status is error and its
   error field holds a message. *)
C13_DiffFailureRecorded ==
    \A s \in DOMAIN snapshots :
        (dstruct[s].pc \in {"raised", "crashed"} \/ delems[s].pc = "raised")
            => snapshots[s].status = "error" /\ snapshots[s].error # None

----------------------------------------------------------------------------
(* s is at a second delivery of sync_from_notion that meets the page its first
   delivery ingested, no run of the reference id having ingested another. *)
RerunOnUnchangedSource(s, page) ==
    /\ sync[s].prior # None
    /\ The(sync[s].prior).page = page
    /\ \A o \in DOMAIN snapshots :
          (o # s /\ sync[o].pc = "returned"
              /\ snapshots[o].reference_id = snapshots[s].reference_id)
            => sync[o].page = page

(* C14: a second delivery of sync_from_notion for a snapshot whose
   normalization committed, against the unchanged source, writes no version row
   and leaves status, document_structure and changed_elements as the first run
   committed them; once the tasks it sent are over, status and error are still
   what they were. *)
C14_RerunIsNoOp ==
    [][\A s \in DOMAIN snapshots :
          /\ (NormalizationSucceeds(s) /\ RerunOnUnchangedSource(s, sync'[s].page))
                => /\ DOMAIN document_elements' = DOMAIN document_elements
                   /\ document_element_metadatas' = document_element_metadatas
                   /\ document_element_contents' = document_element_contents
                   /\ \A f \in {"status", "document_structure", "changed_elements"} :
                         snapshots'[s][f] = The(sync[s].prior).committed[f]
          /\ (/\ sync[s].pc = "returned"
              /\ RerunOnUnchangedSource(s, sync[s].page)
              /\ DiffTaskOver(dstruct'[s]) /\ DiffTaskOver(delems'[s]))
                => /\ snapshots'[s].status = The(sync[s].prior).committed.status
                   /\ snapshots'[s].error = The(sync[s].prior).row.error]_vars

----------------------------------------------------------------------------
(* The task is at its second delivery, its first one ended without a database
   fault, and the store it reads is as the first delivery left it. *)
SecondRunOnSameStore(task) ==
    /\ task.pc = "loaded"
    /\ task.prior # None
    /\ ~The(task.prior).faulted
    /\ The(task.prior).after.snapshots = snapshots
    /\ The(task.prior).after.contents = document_element_contents

(* C15: a second delivery of diff_structure or of diff_elements for the same
   snapshot, with no store change since the first one ended, leaves every
   snapshot row as the first one left it; and a second delivery that completes
   changes no field but the task's own output field. *)
C15_DiffRerunIdempotent ==
    [][\A s \in DOMAIN snapshots :
          /\ (SecondRunOnSameStore(dstruct[s]) /\ dstruct'[s].pc \in {"done", "raised"})
                => snapshots' = snapshots
          /\ (SecondRunOnSameStore(delems[s]) /\ delems'[s].pc \in {"done", "raised"}
                  /\ ~delems'[s].faulted)
                => snapshots' = snapshots
          /\ (dstruct[s].pc = "loaded" /\ dstruct[s].prior # None
                  /\ dstruct'[s].pc = "done")
                => OnlyFieldChanges(s, "document_structure_diff")
          /\ (delems[s].pc = "loaded" /\ delems[s].prior # None
                  /\ delems'[s].pc = "done")
                => OnlyFieldChanges(s, "changed_elements_diff")]_vars

(* diff_elements completed a second time on the store its first delivery left,
   the row holding the diff of a changed element and the structure diff. *)
C15_Witness ==
    \E s \in DOMAIN snapshots :
        /\ delems[s].pc = "done"
        /\ delems[s].prior # None
        /\ ~The(delems[s].prior).faulted
        /\ The(delems[s].prior).after = delems[s].after
        /\ snapshots[s].changed_elements_diff \notin {None, Some(<<>>)}
        /\ snapshots[s].document_structure_diff # None

----------------------------------------------------------------------------
RECURSIVE Preorder(_)
(* The blocks of a forest in depth-first order, a block before its children. *)
Preorder(forest) ==
    IF forest = <<>> THEN <<>>
    ELSE <<forest[1]>> \o Preorder(forest[1].children) \o Preorder(Tail(forest))

RECURSIVE IdsWhere(_, _)
(* The ids of the blocks of seq that are in the set keep, in order. *)
IdsWhere(seq, keep) ==
    IF seq = <<>> THEN <<>>
    ELSE (IF seq[1] \in keep THEN <<seq[1].id>> ELSE <<>>) \o IdsWhere(Tail(seq), keep)

(* C16: the changed-element list a successful run commits holds, once each and
   in traversal order, exactly the ids of the blocks whose element existed
   before the run with a latest_content_hash other than the hash of the block's
   plain text; an element seen for the first time is not listed, and a first
   ingestion lists nothing. *)
C16_ChangedElementsExact ==
    [][\A s \in DOMAIN snapshots :
          NormalizationSucceeds(s) =>
             LET blocks == Preorder(sync'[s].page)
                 changed ==
                    {b \in {blocks[i] : i \in DOMAIN blocks} :
                        /\ b.id \in DOMAIN document_elements
                        /\ document_elements[b.id].latest_content_hash
                              # Some(Blake2b(b.plain_text))}
             IN /\ snapshots'[s].changed_elements = Some(IdsWhere(blocks, changed))
                /\ ~sync[s].is_update => snapshots'[s].changed_elements = Some(<<>>)]_vars

(* An update that lists two changed elements, parent before child, of a page
   with a third, unchanged one. *)
C16_Witness ==
    \E s \in DOMAIN snapshots :
        /\ sync[s].pc = "returned" /\ sync[s].is_update
        /\ snapshots[s].changed_elements = Some(<<"B", "C">>)
        /\ Len(Preorder(sync[s].page)) = 3

----------------------------------------------------------------------------
(* o is the run that ingested the reference id of s last before the run of s. *)
PrevRun(s, o) ==
    /\ o # s
    /\ sync[o].pc = "returned" /\ sync[s].pc = "returned"
    /\ snapshots[o].reference_id = snapshots[s].reference_id
    /\ sync[o].snapshot_timestamp < sync[s].snapshot_timestamp
    /\ \A q \in DOMAIN snapshots :
          (q # s /\ sync[q].pc = "returned"
              /\ snapshots[q].reference_id = snapshots[s].reference_id
              /\ sync[q].snapshot_timestamp < sync[s].snapshot_timestamp)
            => sync[q].snapshot_timestamp <= sync[o].snapshot_timestamp

(* Both diff tasks of s are over, neither ended by a database fault. *)
DiffsHaveRun(s) ==
    /\ dstruct[s].pc \in {"done", "raised"}
    /\ delems[s].pc \in {"done", "raised"} /\ ~delems[s].faulted

(* C17: after an update in which the elements X changed text and the structure
   is the one ingested last, once both diff tasks have run the content-diff
   mapping holds one unified diff for each element of X and for no other, and
   the structure diff reports no change: equal counts and an empty raw diff. *)
C17_TextChangeDiffs ==
    \A s \in DOMAIN snapshots :
        (/\ sync[s].pc = "returned" /\ sync[s].is_update
         /\ snapshots[s].changed_elements # Some(<<>>)
         /\ \E o \in DOMAIN snapshots :
               /\ PrevRun(s, o)
               /\ snapshots[o].document_structure = snapshots[s].document_structure
         /\ DiffsHaveRun(s))
          => LET X == {The(snapshots[s].changed_elements)[i] :
                          i \in DOMAIN The(snapshots[s].changed_elements)}
             IN /\ snapshots[s].changed_elements_diff # None
                /\ DOMAIN The(snapshots[s].changed_elements_diff) = X
                /\ \A id \in X : The(snapshots[s].changed_elements_diff)[id] # <<>>
                /\ snapshots[s].document_structure_diff # None
                /\ The(snapshots[s].document_structure_diff).raw_diff = <<>>
                /\ The(snapshots[s].document_structure_diff).old_elements_count
                      = The(snapshots[s].document_structure_diff).new_elements_count

(* The forest without the element c and what is below it. *)
RECURSIVE WithoutElement(_, _)
WithoutElement(forest, c) ==
    IF forest = <<>> THEN <<>>
    ELSE IF forest[1].id = c THEN WithoutElement(Tail(forest), c)
    ELSE <<[id |-> forest[1].id, children |-> WithoutElement(forest[1].children, c)]>>
         \o WithoutElement(Tail(forest), c)

(* The pairs <<element, parent>> of a structure; the parent of a root-level
   element is "". *)
RECURSIVE ParentPairs(_, _)
ParentPairs(forest, parent) ==
    IF forest = <<>> THEN {}
    ELSE {<<forest[1].id, parent>>}
         \cup ParentPairs(forest[1].children, forest[1].id)
         \cup ParentPairs(Tail(forest), parent)

(* The entries {id: children} of a structure, at every level. *)
RECURSIVE Entries(_)
Entries(forest) ==
    IF forest = <<>> THEN {}
    ELSE {forest[1]} \cup Entries(forest[1].children) \cup Entries(Tail(forest))

(* Between old and new, c went from being a child of an element to another
   parent or to root level, its own subtree and everything else unchanged. *)
MovedFromParent(old, new, c) ==
    /\ \E e \in Entries(old) \cap Entries(new) : e.id = c
    /\ \E po, pn \in {pr[2] : pr \in ParentPairs(old, "") \cup ParentPairs(new, "")} :
           /\ <<c, po>> \in ParentPairs(old, "")
           /\ <<c, pn>> \in ParentPairs(new, "")
           /\ po # ""
           /\ po # pn
    /\ WithoutElement(old, c) = WithoutElement(new, c)

(* C18: when diff_structure has compared two structures that differ by one
   element moved from a parent to another parent or to root level, the parsed
   structure diff lists the move as its one change (a hierarchy change of that
   element) and lists no removed and no added entry. *)
C18_MoveIsOneHierarchyChange ==
    \A s \in DOMAIN snapshots :
        (/\ dstruct[s].pc = "done"
         /\ dstruct[s].after.snapshots[s].document_structure_diff # None)
          => LET old == The(The(dstruct[s].old_snapshot).document_structure)
                 new == dstruct[s].new_structure
                 raw_diff ==
                     The(dstruct[s].after.snapshots[s].document_structure_diff).raw_diff
             IN \A c \in {e.id : e \in Entries(old)} :
                   MovedFromParent(old, new, c)
                     => /\ Len(raw_diff) > 0
                        /\ LET changes == parse_jsondiff_symmetric(raw_diff[1])
                           IN /\ Len(changes.changed) = 1
                              /\ changes.changed[1].kind = "hierarchy change"
                              /\ changes.changed[1].del.val.id = c
                              /\ Len(changes.added) = 0
                              /\ Len(changes.removed) = 0


(* diff_structure has ended normally for s after comparing a new structure
   with an identical structure of the preceding snapshot. *)
DiffedIdenticalStructures(s) ==
    /\ dstruct[s].pc = "done"
    /\ dstruct[s].old_snapshot # None
    /\ The(dstruct[s].old_snapshot).document_structure = Some(dstruct[s].new_structure)

(* C19: whenever diff_structure has compared a new structure with an identical
   structure of the preceding snapshot, the row it wrote carries a structure
   diff whose raw diff is empty and whose two element counts are equal. *)
C19_IdenticalStructuresEmptyDiff ==
    \A s \in DOMAIN snapshots :
        DiffedIdenticalStructures(s)
          => LET written == dstruct[s].after.snapshots[s].document_structure_diff
             IN /\ written # None
                /\ The(written).raw_diff = <<>>
                /\ The(written).old_elements_count = The(written).new_elements_count

(* diff_structure has compared two identical structures that hold a nested
   element and has written the empty raw diff. *)
C19_Witness ==
    \E s \in DOMAIN snapshots :
        /\ DiffedIdenticalStructures(s)
        /\ \E e \in Entries(dstruct[s].new_structure) : e.children # <<>>
        /\ dstruct[s].after.snapshots[s].document_structure_diff # None
        /\ The(dstruct[s].after.snapshots[s].document_structure_diff).raw_diff = <<>>


----------------------------------------------------------------------------
(* The public route GET snapshot/{snapshot_id}. *)

(* The fields of the response model SnapshotResult (api_models.py 39-43). *)
SnapshotResultFields ==
    {"document_structure", "document_structure_diff", "changed_elements",
     "changed_elements_diff"}

(* SnapshotResult built from keyword arguments: a pydantic model keeps the keyword arguments that
   name one of its fields, ignores the others and defaults a missing field to
   None. *)
SnapshotResult(kwargs) ==
    [f \in SnapshotResultFields |-> IF f \in DOMAIN kwargs THEN kwargs[f] ELSE None]

(* get_result (documents.py 76-104): 404 for an id without a row, otherwise
   the response model built from the row. *)
get_result(snapshot_id) ==
    IF snapshot_id \notin DOMAIN snapshots
    THEN [status_code |-> 404, detail |-> "no snapshot exists with that id"]
    ELSE LET snapshot == snapshots[snapshot_id]
         IN [status_code |-> 200,
             body |-> SnapshotResult(
                 [status |-> snapshot.status,
                  document_structure |-> snapshot.document_structure,
                  document_structure_diff |-> snapshot.document_structure_diff,
                  changed_elements |-> snapshot.changed_elements,
                  changed_elements_diff |-> snapshot.changed_elements_diff])]

(* C20: get_result answers 404 for an id without a snapshot; for an existing
   snapshot its answer carries the four result payloads of the row together
   with the row's current status and error text. *)
C20_ResultCarriesStatusAndError ==
    \A snapshot_id \in 1..MaxSnapshots :
        LET result == get_result(snapshot_id)
        IN IF snapshot_id \notin DOMAIN snapshots
           THEN result.status_code = 404
           ELSE /\ result.status_code = 200
                /\ \A f \in SnapshotResultFields :
                       result.body[f] = snapshots[snapshot_id][f]
                /\ "status" \in DOMAIN result.body
                /\ result.body["status"] = snapshots[snapshot_id].status
                /\ "error" \in DOMAIN result.body
                /\ result.body["error"] = snapshots[snapshot_id].error

----------------------------------------------------------------------------
(* The structure rebuilt from the store. *)

(* db_get_latest_elements_by_document (db.py 309-326): the elements of the
   document joined with the metadata row their latest_metadata_version points
   to, ORDER BY position.  Rows of equal position come in any order: the
   result is the set of the orders the query may answer in. *)
db_get_latest_elements_by_document(elements, metadatas, document_id) ==
    LET rows == {m \in metadatas :
                    /\ m.document_element_id \in DOMAIN elements
                    /\ elements[m.document_element_id].document_id = document_id
                    /\ elements[m.document_element_id].latest_metadata_version
                           = Some(m.version)}
        n == Cardinality(rows)
    IN {q \in [1..n -> rows] :
            /\ \A i, j \in 1..n : i # j => q[i] # q[j]
            /\ \A i, j \in 1..n : i < j => q[i].position <= q[j].position}

(* build_structure of generate_document_structure (diff.py 176-185), for the
   element ids among rows[i..] whose parent_element is parent. *)
RECURSIVE build_structure(_, _, _)
build_structure(rows, parent, i) ==
    IF i > Len(rows) THEN <<>>
    ELSE IF rows[i].parent_element = parent
    THEN <<[id |-> rows[i].document_element_id,
            children |-> build_structure(rows, Some(rows[i].document_element_id), 1)]>>
         \o build_structure(rows, parent, i + 1)
    ELSE build_structure(rows, parent, i + 1)

(* generate_document_structure (diff.py 135-187): the structures it may
   return, one per order of the query's answer. *)
generate_document_structure(elements, metadatas, document_id) ==
    {build_structure(rows, None, 1) :
        rows \in db_get_latest_elements_by_document(elements, metadatas, document_id)}

(* C21: when a normalization succeeds, the structure rebuilt from the current
   metadata version of every element of the document is the structure this
   normalization returned. *)
C21_RebuildReproducesStructure ==
    [][\A s \in DOMAIN snapshots :
          NormalizationSucceeds(s)
            => generate_document_structure(document_elements',
                                           document_element_metadatas',
                                           The(snapshots'[s].document_id))
                 = {The(snapshots'[s].document_structure)}]_vars

(* C22: while sync_from_notion is between its first call to the source and
   the end of normalization, the snapshot row in the store has status
   pending. *)
C22_PendingWhileNormalizing ==
    \A s \in DOMAIN snapshots :
        sync[s].pc = "started" => snapshots[s].status = "pending"

----------------------------------------------------------------------------
(* Transaction t inserts the version row r in this step. *)
InsertsMetadata(t, r) == r \in txMetadatas'[t] \ txMetadatas[t]
InsertsContent(t, r) == r \in txContents'[t] \ txContents[t]

(* C23: an insert of a metadata or content row sets the element's pointer
   (and, for content, latest_content_hash) to the new row when the pointer is
   NULL or older than the new version, and otherwise leaves the element row as
   it was. *)
C23_PointerMovesIffNewer ==
    [][\A t \in Txs :
          /\ \A r \in document_element_metadatas' \cup txMetadatas'[t] :
                InsertsMetadata(t, r)
                  => LET el == TxElem(t, r.document_element_id)
                         after == TxElem(t, r.document_element_id)'
                     IN IF \/ el.latest_metadata_version = None
                           \/ r.version > The(el.latest_metadata_version)
                        THEN after = [el EXCEPT !.latest_metadata_version = Some(r.version)]
                        ELSE after = el
          /\ \A r \in document_element_contents' \cup txContents'[t] :
                InsertsContent(t, r)
                  => LET el == TxElem(t, r.document_element_id)
                         after == TxElem(t, r.document_element_id)'
                     IN IF \/ el.latest_content_version = None
                           \/ r.version > The(el.latest_content_version)
                        THEN after = [el EXCEPT !.latest_content_version = Some(r.version),
                                                !.latest_content_hash = Some(r.hash_raw)]
                        ELSE after = el]_vars

(* A transaction has inserted a content row older than the content version
   its element points to, with another text: the element still has the newer
   version and the hash of the newer row. *)
C23_Witness ==
    \E t \in Txs : \E r \in txContents[t] :
        LET el == TxElem(t, r.document_element_id)
        IN /\ el.latest_content_version # None
           /\ The(el.latest_content_version) > r.version
           /\ el.latest_content_hash # Some(r.hash_raw)
           /\ \E q \in document_element_contents \cup txContents[t] :
                 /\ q.document_element_id = r.document_element_id
                 /\ Some(q.version) = el.latest_content_version
                 /\ Some(q.hash_raw) = el.latest_content_hash

----------------------------------------------------------------------------
(* The blocks of a source forest, each with the depth and the enclosing block
   it is met at (None at depth 0). *)
RECURSIVE SourceBlocks(_, _, _)
SourceBlocks(forest, depth, parent) ==
    IF forest = <<>> THEN {}
    ELSE {[id |-> forest[1].id, plain_text |-> forest[1].plain_text,
           content |-> forest[1].content, depth |-> depth, parent |-> parent]}
         \cup SourceBlocks(forest[1].children, depth + 1, Some(forest[1].id))
         \cup SourceBlocks(Tail(forest), depth, parent)

(* The rows of element id with the greatest version. *)
LatestRows(rows, id) ==
    {r \in rows : /\ r.document_element_id = id
                  /\ \A q \in rows : q.document_element_id = id => q.version <= r.version}

(* The ids a changed-elements list names. *)
Listed(changed_elements) ==
    {The(changed_elements)[i] : i \in DOMAIN The(changed_elements)}

(* C24: when a normalization succeeds, an existing element whose plain text
   in the source equals the text of its latest content version gets no content
   row and is not listed as changed, whatever its formatted text, depth or
   parent in the source. *)
C24_DecisionOnPlainTextOnly ==
    [][\A s \in DOMAIN snapshots :
          NormalizationSucceeds(s)
            => \A b \in SourceBlocks(sync'[s].page, 0, None) :
                  (/\ b.id \in DOMAIN document_elements
                   /\ \E r \in LatestRows(document_element_contents, b.id) :
                         r.content_raw = b.plain_text)
                    => /\ \A r \in document_element_contents' \ document_element_contents :
                             r.document_element_id # b.id
                       /\ b.id \notin Listed(snapshots'[s].changed_elements)]_vars

(* A run has returned whose page held an existing element with the plain text
   of its only content version, another formatted text, and an existing element
   at another depth and under another parent than its metadata says; neither
   got a second content row nor is listed. *)
C24_Witness ==
    \E s \in DOMAIN snapshots :
        /\ sync[s].pc = "returned" /\ sync[s].is_update
        /\ \E b, c \in SourceBlocks(sync[s].page, 0, None) :
              /\ \E r \in document_element_contents :
                    /\ r.document_element_id = b.id
                    /\ r.content_raw = b.plain_text
                    /\ r.content_formatted # b.content
              /\ \E m \in document_element_metadatas :
                    /\ m.document_element_id = c.id
                    /\ m.level # c.depth
                    /\ m.parent_element # c.parent
              /\ \A id \in {b.id, c.id} :
                    /\ Cardinality(LatestRows(document_element_contents, id)) = 1
                    /\ \A r \in document_element_contents :
                          r.document_element_id = id
                            => r \in LatestRows(document_element_contents, id)
                    /\ id \notin Listed(snapshots[s].changed_elements)

----------------------------------------------------------------------------
(* C25: when a normalization succeeds, an existing element whose plain text
   in the source differs from the text its cached hash stands for gets exactly
   one new content row, whose version is the run's snapshot timestamp and whose
   text is the new one, and gets no metadata row; its DocumentElement row is
   not created anew. *)
C25_TextChangeAppendsOneContent ==
    [][\A s \in DOMAIN snapshots :
          NormalizationSucceeds(s)
            => \A b \in SourceBlocks(sync'[s].page, 0, None) :
                  (/\ b.id \in DOMAIN document_elements
                   /\ document_elements[b.id].latest_content_hash
                          # Some(Blake2b(b.plain_text)))
                    => LET new_contents ==
                               {r \in document_element_contents' \ document_element_contents :
                                   r.document_element_id = b.id}
                           new_metadatas ==
                               {r \in document_element_metadatas' \ document_element_metadatas :
                                   r.document_element_id = b.id}
                       IN /\ Cardinality(new_contents) = 1
                          /\ \A r \in new_contents :
                                /\ r.version = sync'[s].snapshot_timestamp
                                /\ r.content_raw = b.plain_text
                                /\ r.hash_raw = Blake2b(b.plain_text)
                          /\ new_metadatas = {}
                          /\ document_elements'[b.id].document_id
                                = document_elements[b.id].document_id
                          /\ document_elements'[b.id].latest_metadata_version
                                = document_elements[b.id].latest_metadata_version
                          /\ document_element_contents \subseteq document_element_contents'
                          /\ b.id \in Listed(snapshots'[s].changed_elements)]_vars

(* An element has two content versions of different text and one metadata
   version, the later content version written by a returned update that lists
   the element. *)
C25_Witness ==
    \E s \in DOMAIN snapshots : \E id \in DOMAIN document_elements :
        /\ sync[s].pc = "returned" /\ sync[s].is_update
        /\ id \in Listed(snapshots[s].changed_elements)
        /\ Cardinality({r \in document_element_metadatas : r.document_element_id = id}) = 1
        /\ Cardinality({r \in document_element_contents : r.document_element_id = id}) = 2
        /\ \E r, q \in document_element_contents :
              /\ r.document_element_id = id /\ q.document_element_id = id
              /\ r.version = sync[s].snapshot_timestamp
              /\ q.version < r.version
              /\ q.content_raw # r.content_raw

----------------------------------------------------------------------------
(* C26: when a normalization succeeds, an existing element met in the source
   at another level or under another parent than its current metadata version
   says gets a new metadata row that holds the level and the parent it was met
   at. *)
C26_MoveAppendsMetadata ==
    [][\A s \in DOMAIN snapshots :
          NormalizationSucceeds(s)
            => \A b \in SourceBlocks(sync'[s].page, 0, None) :
                  (/\ b.id \in DOMAIN document_elements
                   /\ \E m \in LatestRows(document_element_metadatas, b.id) :
                         m.level # b.depth \/ m.parent_element # b.parent)
                    => \E r \in document_element_metadatas' \ document_element_metadatas :
                          /\ r.document_element_id = b.id
                          /\ r.level = b.depth
                          /\ r.parent_element = b.parent]_vars

----------------------------------------------------------------------------
(* C27: every step leaves each metadata row and each content row of the store
   in place and unaltered; the version tables only grow. *)
C27_VersionsAppendOnly ==
    [][/\ document_element_metadatas \subseteq document_element_metadatas'
       /\ document_element_contents \subseteq document_element_contents']_vars

(* An element holds two content versions, the older one still there after a
   later run wrote the newer one and both diff tasks of that run ended. *)
C27_Witness ==
    \E s \in DOMAIN snapshots : \E r, q \in document_element_contents :
        /\ r.document_element_id = q.document_element_id
        /\ q.version < r.version
        /\ sync[s].pc = "returned"
        /\ r.version = sync[s].snapshot_timestamp
        /\ dstruct[s].pc \in {"done", "raised"}
        /\ delems[s].pc \in {"done", "raised"}

----------------------------------------------------------------------------
(* q and r are consecutive content versions of one element. *)
ConsecutiveContents(q, r) ==
    /\ q.document_element_id = r.document_element_id
    /\ q.version < r.version
    /\ \A m \in document_element_contents :
          m.document_element_id = q.document_element_id
            => (m.version <= q.version \/ m.version >= r.version)

(* C28: with the runs of one reference id serialized, a normalization writes a
   content row for an existing element only with a hash other than the
   element's cached hash, and in every state two consecutive content versions
   of an element have different hashes. *)
C28_ConsecutiveContentsDiffer ==
    /\ [][\A s \in DOMAIN snapshots :
             NormalizationSucceeds(s)
               => \A r \in document_element_contents' \ document_element_contents :
                     r.document_element_id \in DOMAIN document_elements
                       => Some(r.hash_raw)
                            # document_elements[r.document_element_id].latest_content_hash]_vars
    /\ [](\A q, r \in document_element_contents :
             ConsecutiveContents(q, r) => q.hash_raw # r.hash_raw)

(* Two runs for one reference id have returned; the later met one element
   with its text unchanged, which still has a single content version, and
   another with a new text, which has two consecutive versions of different
   hashes. *)
C28_Witness ==
    \E s, o \in DOMAIN snapshots :
        /\ s # o
        /\ snapshots[s].reference_id = snapshots[o].reference_id
        /\ sync[s].pc = "returned" /\ sync[o].pc = "returned"
        /\ sync[o].snapshot_timestamp < sync[s].snapshot_timestamp
        /\ \E b, c \in SourceBlocks(sync[s].page, 0, None) :
              /\ b.id \in BlockIds(sync[o].page)
              /\ c.id \in BlockIds(sync[o].page)
              /\ Cardinality({r \in document_element_contents :
                                 r.document_element_id = b.id}) = 1
              /\ \E q, r \in document_element_contents :
                    /\ r.document_element_id = c.id
                    /\ ConsecutiveContents(q, r)
                    /\ q.hash_raw # r.hash_raw
                    /\ r.version = sync[s].snapshot_timestamp

----------------------------------------------------------------------------
(* The index of block id in the depth-first order of a forest, counted from 0. *)
PreorderIndex(forest, id) ==
    (CHOOSE k \in 1..Len(Preorder(forest)) : Preorder(forest)[k].id = id) - 1

(* C29: a first ingestion stores, in the initial metadata of each element, the
   index of its block in the depth-first order of the source tree. *)
C29_PositionIsPreorderIndex ==
    [][\A s \in DOMAIN snapshots :
          (NormalizationSucceeds(s) /\ ~sync'[s].is_update)
            => \A m \in document_element_metadatas' \ document_element_metadatas :
                  m.position = PreorderIndex(sync'[s].page, m.document_element_id)]_vars

----------------------------------------------------------------------------
(* The nested list of {id: children} with the ids, the nesting and the sibling
   order of a source forest. *)
RECURSIVE Mirror(_)
Mirror(forest) ==
    IF forest = <<>> THEN <<>>
    ELSE <<[id |-> forest[1].id, children |-> Mirror(forest[1].children)]>>
         \o Mirror(Tail(forest))

(* C30: when a normalization succeeds, the structure stored on the snapshot
   (and handed to diff_structure) has the ids, the nesting and the sibling
   order of the source tree at every level, and the metadata row of each
   element created by the run holds the depth of its block as level and the
   enclosing block as parent, NULL at depth 0. *)
C30_StructureMirrorsSource ==
    [][\A s \in DOMAIN snapshots :
          NormalizationSucceeds(s)
            => /\ snapshots'[s].document_structure = Some(Mirror(sync'[s].page))
               /\ dstruct'[s].pc = "queued"
                     => dstruct'[s].new_structure = Mirror(sync'[s].page)
               /\ \A id \in DOMAIN document_elements' \ DOMAIN document_elements :
                     \E m \in document_element_metadatas' : m.document_element_id = id
               /\ \A m \in document_element_metadatas' \ document_element_metadatas :
                     \E b \in SourceBlocks(sync'[s].page, 0, None) :
                        /\ b.id = m.document_element_id
                        /\ m.level = b.depth
                        /\ m.parent_element = b.parent]_vars

(* A run has returned for a page that nests three levels deep and has a
   second root-level block: the stored structure mirrors the page, the deepest
   element has level 2 under its enclosing block, the root-level ones have
   level 0 and no parent. *)
C30_Witness ==
    \E s \in DOMAIN snapshots :
        /\ sync[s].pc = "returned"
        /\ Len(sync[s].page) > 1
        /\ snapshots[s].document_structure = Some(Mirror(sync[s].page))
        /\ \E b \in SourceBlocks(sync[s].page, 0, None) :
              /\ b.depth = 2
              /\ \E m \in document_element_metadatas :
                    /\ m.document_element_id = b.id /\ m.version = sync[s].snapshot_timestamp
                    /\ m.level = 2 /\ m.parent_element = b.parent
        /\ \A b \in SourceBlocks(sync[s].page, 0, None) :
              b.depth = 0
                => \E m \in document_element_metadatas :
                      /\ m.document_element_id = b.id /\ m.version = sync[s].snapshot_timestamp
                      /\ m.level = 0 /\ m.parent_element = None

----------------------------------------------------------------------------
(* o was triggered before s for the same reference id. *)
TriggeredBefore(o, s) ==
    /\ snapshots[o].reference_id = snapshots[s].reference_id
    /\ snapshots[o].triggered_at < snapshots[s].triggered_at

(* C31: the structure diff computed for a snapshot s used the structure of a
   snapshot o of the same document triggered before s, and no ingested snapshot
   of that document was triggered between o and s. *)
C31_DiffAgainstImmediatePredecessor ==
    \A s \in DOMAIN snapshots :
        dstruct[s].pc = "done"
          => LET o == The(dstruct[s].old_snapshot).id
             IN /\ TriggeredBefore(o, s)
                /\ \A q \in DOMAIN snapshots :
                      (TriggeredBefore(o, q) /\ TriggeredBefore(q, s))
                        => snapshots[q].document_structure = None

----------------------------------------------------------------------------
(* SpecElements: diff_elements on its own, over every small store.  Each of
   the elements A and B has at least one content version; the snapshot lists
   any of them as changed, whether or not the element has a second version. *)

(* The content histories an element may have: one row per version of a
   non-empty set of versions. *)
ContentHistories(id) ==
    UNION {{ {DocumentElementContent(id, v, text[v], Blake2b(text[v]), text[v]) : v \in vs}
             : text \in [vs -> Texts]}
           : vs \in (SUBSET (1..MaxVersion)) \ {{}}}

(* The lists without repetition over StoreElems. *)
ChangedLists ==
    {<<>>} \cup {<<id>> : id \in StoreElems}
    \cup {l \in StoreElems \X StoreElems : l[1] # l[2]}

InitElements ==
    \E ha \in ContentHistories("A"), hb \in ContentHistories("B"),
       changed_elems \in ChangedLists :
        LET contents == ha \cup hb
            newest(id) == CHOOSE r \in LatestRows(contents, id) : TRUE
            oldest(id) == CHOOSE r \in contents :
                            /\ r.document_element_id = id
                            /\ \A q \in contents :
                                  q.document_element_id = id => r.version <= q.version
        IN /\ documents = <<[reference_id |-> "p1", updated_at |-> MaxVersion]>>
           /\ document_element_contents = contents
           /\ document_element_metadatas =
                 {DocumentElementMetadata("A", oldest("A").version, 0, None, 0),
                  DocumentElementMetadata("B", oldest("B").version, 0, None, 1)}
           /\ document_elements =
                 [id \in StoreElems |->
                     [document_id |-> 1,
                      latest_metadata_version |-> Some(oldest(id).version),
                      latest_content_version |-> Some(newest(id).version),
                      latest_content_hash |-> Some(newest(id).hash_raw)]]
           /\ snapshots =
                 <<[Snapshot("p1", 1) EXCEPT
                       !.document_id = Some(1),
                       !.executed_at = Some(MaxVersion),
                       !.status = "processing_diffs",
                       !.document_structure =
                           Some(<<[id |-> "A", children |-> <<>>],
                                  [id |-> "B", children |-> <<>>]>>),
                       !.changed_elements = Some(changed_elems)]>>
           /\ clock = [db |-> 1, worker |-> MaxVersion]
           /\ txElems = [t \in Txs |-> <<>>]
           /\ txMetadatas = [t \in Txs |-> {}]
           /\ txContents = [t \in Txs |-> {}]
           /\ sync = <<[pc |-> "returned", snapshot_timestamp |-> MaxVersion,
                        is_update |-> TRUE, deliveries |-> 1, prior |-> None]>>
           /\ dstruct = <<NoTask>>
           /\ delems = <<[pc |-> "queued", deliveries |-> 1, prior |-> None]>>

NextElements ==
    \/ DiffElementsLoad(1)
    \/ \E fault \in DbFaults : DiffElementsFinish(1, fault)

SpecElements == InitElements /\ [][NextElements]_vars

(* The content rows of element id that diff_elements of s found. *)
ContentsSeen(s, id) ==
    {r \in delems[s].after.contents : r.document_element_id = id}

(* C32: a run of diff_elements whose list is present fails only on a database
   error; when it completes, the mapping it writes has an entry for exactly
   the listed elements that have two content versions (none for a listed
   element with fewer), and the step leaves the snapshot's status and error as
   they were. *)
C32_SingleVersionSkipped ==
    [][\A s \in DOMAIN snapshots :
          (delems[s].pc = "loaded" /\ delems'[s].pc # "loaded"
             /\ delems[s].snapshot.changed_elements # None)
            => LET listed == Listed(delems[s].snapshot.changed_elements)
                   versions(id) == {r \in document_element_contents :
                                      r.document_element_id = id}
               IN /\ delems'[s].pc = "raised" => delems'[s].faulted
                  /\ delems'[s].pc = "done"
                       => /\ snapshots'[s].changed_elements_diff # None
                          /\ DOMAIN The(snapshots'[s].changed_elements_diff)
                                = {id \in listed : Cardinality(versions(id)) >= 2}
                          /\ snapshots'[s].status = snapshots[s].status
                          /\ snapshots'[s].error = snapshots[s].error]_vars

(* diff_elements completed for a snapshot that lists an element with a single
   content version and an element with two of different text: the mapping holds
   the second only, and the status is still processing_diffs. *)
C32_Witness ==
    \E s \in DOMAIN snapshots :
        /\ delems[s].pc = "done"
        /\ snapshots[s].status = "processing_diffs"
        /\ \E a, b \in Listed(delems[s].snapshot.changed_elements) :
              /\ Cardinality(ContentsSeen(s, a)) = 1
              /\ Cardinality(ContentsSeen(s, b)) >= 2
              /\ DOMAIN The(snapshots[s].changed_elements_diff) = {b}
              /\ The(snapshots[s].changed_elements_diff)[b] # <<>>

----------------------------------------------------------------------------
(* The versions of element id's content rows. *)
ContentVersions(id) ==
    {r.version : r \in {q \in document_element_contents : q.document_element_id = id}}

(* The greatest of a non-empty set of versions. *)
MaxOf(versions) == CHOOSE v \in versions : \A w \in versions : w <= v

(* C33: every content diff that a completing run of diff_elements writes for
   an element names that element in both headers, its to-header names the
   element's most recent content version and its from-header the most recent
   one before that, which is strictly earlier. *)
C33_DiffFromOlderToNewer ==
    [][\A s \in DOMAIN snapshots :
          (delems[s].pc = "loaded" /\ delems'[s].pc = "done")
            => LET written == The(snapshots'[s].changed_elements_diff)
               IN \A id \in DOMAIN written :
                     \A i \in DOMAIN written[id] :
                        LET d == written[id][i]
                            newest == MaxOf(ContentVersions(id))
                        IN /\ d.fromfile[1] = id
                           /\ d.tofile[1] = id
                           /\ d.tofile[2] = newest
                           /\ d.fromfile[2] = MaxOf(ContentVersions(id) \ {newest})
                           /\ d.fromfile[2] < d.tofile[2]]_vars

(* A completed run of diff_elements wrote a diff with headers for an element
   all of whose content versions it found. *)
C33_Witness ==
    \E s \in DOMAIN snapshots :
        /\ delems[s].pc = "done"
        /\ snapshots[s].changed_elements_diff # None
        /\ \E id \in DOMAIN The(snapshots[s].changed_elements_diff) :
              LET d == The(snapshots[s].changed_elements_diff)[id]
              IN /\ d # <<>>
                 /\ d[1].fromfile[2] \in ContentVersions(id)
                 /\ d[1].tofile[2] = MaxOf(ContentVersions(id))
                 /\ d[1].removed # d[1].added

----------------------------------------------------------------------------
(* C34: the documents table never holds two rows of one reference id, a step
   adds a Document only when none of that reference id exists, and a step that
   adds none changes at most the updated_at of the rows there are. *)
C34_OneDocumentPerReference ==
    /\ [](\A d, e \in DOMAIN documents :
             documents[d].reference_id = documents[e].reference_id => d = e)
    /\ [][/\ Len(documents') >= Len(documents)
          /\ \A d \in DOMAIN documents :
                documents'[d] = [documents[d] EXCEPT !.updated_at = documents'[d].updated_at]
          /\ \A d \in DOMAIN documents' \ DOMAIN documents :
                \A e \in DOMAIN documents :
                    documents[e].reference_id # documents'[d].reference_id]_vars

----------------------------------------------------------------------------
(* The number of elements of a structure tree, nested ones included. *)
RECURSIVE CountElements(_)
CountElements(forest) ==
    IF forest = <<>> THEN 0
    ELSE 1 + CountElements(Head(forest).children) + CountElements(Tail(forest))

(* C35: the two counts in the summary that a completed diff_structure wrote
   are the numbers of elements, nested ones included, of the old and of the new
   structure it compared. *)
C35_CountsAreTreeSizes ==
    \A s \in DOMAIN snapshots :
        (dstruct[s].pc = "done" /\ snapshots[s].document_structure_diff # None)
          => LET written == The(dstruct[s].after.snapshots[s].document_structure_diff)
             IN /\ written.old_elements_count
                     = CountElements(The(The(dstruct[s].old_snapshot).document_structure))
                /\ written.new_elements_count = CountElements(dstruct[s].new_structure)

----------------------------------------------------------------------------
(* SpecSiblings: the pipeline on the document p3 alone, whose blocks change
   their order under one parent; runs do not overlap. *)
CreateSnapshotSiblings ==
    /\ SyncDeliveries < MaxSnapshots
    /\ NewSnapshot("p3")

NextSiblings ==
    \/ CreateSnapshotSiblings
    \/ \E s \in 1..MaxSnapshots :
          \/ \E fault \in {"none", "api", "shape"} : SyncBeginSerial(s, fault)
          \/ \E page \in Pages("p3") : \E fault \in Faults("p3", page) :
                SyncNormalize(s, page, fault)
          \/ \E fault \in DbFaults : DiffStructureLoad(s, fault)
          \/ DiffStructureFinish(s)
          \/ DiffElementsLoad(s)
          \/ \E fault \in DbFaults : DiffElementsFinish(s, fault)

SpecSiblings == Init /\ [][NextSiblings]_vars

(* The keys of a structure tree. *)
Keys(forest) == {e.id : e \in Entries(forest)}

(* The keys of forest in depth-first order. *)
RECURSIVE KeyOrder(_)
KeyOrder(forest) ==
    IF forest = <<>> THEN <<>>
    ELSE <<forest[1].id>> \o KeyOrder(forest[1].children) \o KeyOrder(Tail(forest))

(* a stands before b in the sequence of keys. *)
Before(keys, a, b) ==
    \E i, j \in DOMAIN keys : i < j /\ keys[i] = a /\ keys[j] = b

(* Between old and new, c kept its parent and changed sides with a sibling
   that kept that parent too. *)
SiblingMoved(old, new, c) ==
    \E parent \in Keys(old) \cup {""}, b \in Keys(old) \ {c} :
        /\ {<<c, parent>>, <<b, parent>>} \subseteq ParentPairs(old, "")
        /\ {<<c, parent>>, <<b, parent>>} \subseteq ParentPairs(new, "")
        /\ Before(KeyOrder(old), c, b) # Before(KeyOrder(new), c, b)

(* C36: in the parsed diff of two structures that diff_structure compared, an
   added entry names a key absent from the old tree and a removed entry a key
   absent from the new tree; and when siblings changed their order under an
   unchanged parent, the changed list holds a move of one of them and no
   element has two moves. *)
C36_InsertDeleteOnlyForOneSidedKeys ==
    \A s \in DOMAIN snapshots :
        (/\ dstruct[s].pc = "done"
         /\ dstruct[s].after.snapshots[s].document_structure_diff # None
         /\ The(dstruct[s].after.snapshots[s].document_structure_diff).raw_diff # <<>>)
          => LET old == The(The(dstruct[s].old_snapshot).document_structure)
                 new == dstruct[s].new_structure
                 raw_diff ==
                     The(dstruct[s].after.snapshots[s].document_structure_diff).raw_diff
                 changes == parse_jsondiff_symmetric(raw_diff[1])
                 moves(c) == {k \in DOMAIN changes.changed :
                                 /\ changes.changed[k].kind = "moved"
                                 /\ changes.changed[k].del.val.id = c}
                 moved == {c \in Keys(old) \cap Keys(new) : SiblingMoved(old, new, c)}
             IN /\ \A k \in DOMAIN changes.added :
                      changes.added[k].val.id \notin Keys(old)
                /\ \A k \in DOMAIN changes.removed :
                      changes.removed[k].val.id \notin Keys(new)
                /\ \A c \in moved : Cardinality(moves(c)) <= 1
                /\ moved # {} => \E c \in moved : moves(c) # {}

----------------------------------------------------------------------------
(* A diff task of s is waiting in the queue or running. *)
DiffJobInFlight(s) ==
    dstruct[s].pc \in {"queued", "loaded"} \/ delems[s].pc \in {"queued", "loaded"}

(* C37: whenever sync_from_notion has returned for a snapshot, or one of the
   snapshot's diff tasks is queued or running, the snapshot's row holds a
   document_id, a document_structure and a changed_elements list. *)
C37_DiffsAfterCommit ==
    \A s \in DOMAIN snapshots :
        (sync[s].pc = "returned" \/ DiffJobInFlight(s))
          => /\ snapshots[s].document_id # None
             /\ snapshots[s].document_structure # None
             /\ snapshots[s].changed_elements # None

(* Both diff tasks of a snapshot are running on the committed row of a page
   that has blocks. *)
C37_Witness ==
    \E s \in DOMAIN snapshots :
        /\ sync[s].pc = "returned"
        /\ dstruct[s].pc = "loaded"
        /\ delems[s].pc = "loaded"
        /\ snapshots[s].document_id # None
        /\ snapshots[s].document_structure \notin {None, Some(<<>>)}
        /\ snapshots[s].changed_elements # None

----------------------------------------------------------------------------
(* C38: no step changes the status or the error of a snapshot whose persisted
   status is done. *)
C38_DoneIsTerminal ==
    [][\A s \in DOMAIN snapshots :
          snapshots[s].status = "done"
            => /\ snapshots'[s].status = "done"
               /\ snapshots'[s].error = snapshots[s].error]_vars

----------------------------------------------------------------------------
(* SpecEdits: a backlog of snapshots of the document p4, whose one block is
   edited between ingestions, processed in any order. *)
CreateSnapshotEdits ==
    /\ Len(snapshots) < MaxBacklog
    /\ NewSnapshot("p4")

NextEdits ==
    \/ CreateSnapshotEdits
    \/ \E s \in 1..MaxBacklog :
          \/ \E fault \in {"none", "api", "shape"} : SyncBegin(s, fault)
          \/ \E page \in Pages("p4") : \E fault \in Faults("p4", page) :
                SyncNormalize(s, page, fault)
          \/ \E fault \in DbFaults : DiffStructureLoad(s, fault)
          \/ DiffStructureFinish(s)
          \/ DiffElementsLoad(s)
          \/ \E fault \in DbFaults : DiffElementsFinish(s, fault)

SpecEdits == Init /\ [][NextEdits]_vars

(* C39: every content diff that a completed diff_elements stored on a snapshot
   has, as its to-version, the version the snapshot's own normalization wrote
   (its executed_at) and, as its from-version, the element's greatest version
   below that one. *)
C39_DiffOfOwnVersion ==
    \A s \in DOMAIN snapshots :
        delems[s].pc = "done"
          => LET written == The(delems[s].after.snapshots[s].changed_elements_diff)
                 own == The(delems[s].snapshot.executed_at)
             IN \A id \in DOMAIN written :
                   \A i \in DOMAIN written[id] :
                      LET earlier == {r.version : r \in
                                        {q \in delems[s].after.contents :
                                            /\ q.document_element_id = id
                                            /\ q.version < own}}
                      IN /\ written[id][i].tofile[2] = own
                         /\ earlier # {}
                         /\ written[id][i].fromfile[2] = MaxOf(earlier)

----------------------------------------------------------------------------
(* The committed content rows of element id. *)
ContentRows(id) == {r \in document_element_contents : r.document_element_id = id}

(* C40: for every element, latest_content_hash is NULL exactly when the element
   has no content row; otherwise it is the hash_raw of the content row whose
   version is latest_content_version, and that row is the element's newest. *)
C40_HashOfLatestVersion ==
    \A id \in DOMAIN document_elements :
        LET el == document_elements[id]
        IN /\ el.latest_content_hash = None <=> ContentRows(id) = {}
           /\ ContentRows(id) # {}
                => \E r \in ContentRows(id) :
                      /\ el.latest_content_version = Some(r.version)
                      /\ el.latest_content_hash = Some(r.hash_raw)
                      /\ \A q \in ContentRows(id) : q.version <= r.version

(* Contents inserted out of order: an element has a committed content row that
   is older than its newest one and has another hash, and the element's hash is
   that of the newest. *)
C40_Witness ==
    \E id \in DOMAIN document_elements :
        \E r, q \in ContentRows(id) :
            /\ q.version < r.version
            /\ q.hash_raw # r.hash_raw
            /\ document_elements[id].latest_content_version = Some(r.version)
            /\ document_elements[id].latest_content_hash = Some(r.hash_raw)
            /\ \E t \in Txs : \E u \in txContents[t] :
                  /\ u.document_element_id = id
                  /\ u.version < r.version
                  /\ u.hash_raw # r.hash_raw

============================================================================
